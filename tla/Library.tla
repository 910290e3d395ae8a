-------------------------------- MODULE Library --------------------------------
(***************************************************************************)
(* Favourites and collections of the API's users (api/routes/favorites.py, *)
(* api/routes/collections.py) over their tables.  A request has a session: *)
(* it reads, it inserts what it found missing, it commits after the        *)
(* handler; another request's rows show once they are committed, and an    *)
(* insert waits for an uncommitted one with its key.  Applications exist.  *)
(***************************************************************************)
EXTENDS Integers, FiniteSets, SequencesExt

CONSTANTS
    Clients,   \* requests at a time
    Users,     \* subjects
    LibraryApps,      \* applications
    Names,     \* slugified names of collections
    MaxServed  \* bound: requests that change something or may

ASSUME LibraryAssumption == MaxServed \in Nat

VARIABLES
    favorites,    \* committed rows of user_favorites
    events,       \* committed rows of analytics_events: which favourite was made or removed
    collections,  \* committed rows of collections
    items,        \* committed rows of collection_items
    client,       \* where each request is
    served        \* requests so far: the ids of the rows they make

libraryVars == <<favorites, events, collections, items, client, served>>
tables == <<favorites, events, collections, items>>

Ended   == {"idle", "ok", "error"}
NoRow   == [id |-> 0]
Waiting == [at |-> "idle", op |-> "none", row |-> NoRow, count |-> 0, listed |-> {},
            alone |-> TRUE]

LibraryInit ==
    /\ favorites = {} /\ events = {} /\ collections = {} /\ items = {}
    /\ client = [c \in Clients |-> Waiting]
    /\ served = 0

BeginRequest(c, op, where, row) ==
    /\ served < MaxServed
    /\ client[c].at \in Ended
    /\ served' = served + 1
    /\ client' = [client EXCEPT ![c] = [Waiting EXCEPT !.op = op, !.at = where, !.row = row]]
    /\ UNCHANGED tables

End(c, how) == /\ client' = [client EXCEPT ![c].at = how]
               /\ UNCHANGED <<tables, served>>

--------------------------------------------------------------------------------
(* The rows a handler looks up first *)

Favorite(u, a)   == {f \in favorites : f.user = u /\ f.app = a}
Item(k, a)       == {i \in items : i.of = k.id /\ i.app = a}
SlugsOf(u)       == {k.slug : k \in {x \in collections : x.user = u}}

AddFavorite(c, u, a) ==
    IF Favorite(u, a) = {}
    THEN BeginRequest(c, "favorite", "insert", [id |-> served + 1, user |-> u, app |-> a])
    ELSE BeginRequest(c, "favorite", "ok", NoRow)

RemoveFavorite(c, u, a) ==
    IF Favorite(u, a) = {} THEN BeginRequest(c, "unfavorite", "ok", NoRow)
    ELSE \E f \in Favorite(u, a) : BeginRequest(c, "unfavorite", "commit", f)

\* Mutant: the suffix is not looked up
CreateCollection_Blind(c, u, n, public) ==
    LET k == IF <<n, 1>> \in SlugsOf(u) THEN 2 ELSE 1
    IN  BeginRequest(c, "create", "insert",
                     [id |-> served + 1, user |-> u, slug |-> <<n, k>>, public |-> public])
\* The name's slug, or the first of slug-2, slug-3, ... that the user has not
CreateCollection(c, u, n, public) ==
    LET k == CHOOSE j \in 1 .. MaxServed : /\ <<n, j>> \notin SlugsOf(u)
                                           /\ \A i \in 1 .. j - 1 : <<n, i>> \in SlugsOf(u)
    IN  BeginRequest(c, "create", "insert",
                     [id |-> served + 1, user |-> u, slug |-> <<n, k>>, public |-> public])

\* Somebody else's collection is not found
AddItem(c, u, k, a) ==
    IF k.user # u THEN BeginRequest(c, "add", "ok", NoRow)
    ELSE IF Item(k, a) = {}
    THEN BeginRequest(c, "add", "insert", [id |-> served + 1, of |-> k.id, app |-> a])
    ELSE BeginRequest(c, "add", "count", [id |-> 0, of |-> k.id, app |-> a])

RemoveItem(c, u, k, a) ==
    IF k.user # u \/ Item(k, a) = {} THEN BeginRequest(c, "take", "ok", NoRow)
    ELSE \E i \in Item(k, a) : BeginRequest(c, "take", "commit", i)

\* session.delete loads the items to delete them first
DeleteCollection(c, u, k) ==
    IF k.user # u THEN BeginRequest(c, "drop", "ok", NoRow) ELSE BeginRequest(c, "drop", "commit", k)

\* A private collection is not found either
ShowCollection(c, k) ==
    IF ~k.public THEN BeginRequest(c, "show", "ok", NoRow)
    ELSE BeginRequest(c, "show", "count", [id |-> 0, of |-> k.id])

--------------------------------------------------------------------------------
(* Insert, answer, commit *)

\* The columns of the unique constraint
Key(op, row) == CASE op = "favorite" -> <<row.user, row.app>>
                  [] op = "create"   -> <<row.user, row.slug>>
                  [] op = "add"      -> <<row.of, row.app>>

Inserting == {"favorite", "create", "add"}
Flushed(c) == /\ client[c].op \in Inserting /\ client[c].row.id # 0
              /\ client[c].at \in {"count", "list", "commit"}
Table(op)  == CASE op = "favorite" -> favorites [] op = "create" -> collections [] op = "add" -> items

\* A committed row with the key, or a collection that is gone, raises: the answer is 500
Refused(c) ==
    LET w == client[c]
    IN  \/ \E r \in Table(w.op) : Key(w.op, r) = Key(w.op, w.row)
        \/ w.op = "add" /\ ~ \E k \in collections : k.id = w.row.of

Insert(c) ==
    LET w == client[c]
    IN  /\ w.at = "insert"
        /\ \A d \in Clients \ {c} :
              Flushed(d) /\ client[d].op = w.op => Key(w.op, client[d].row) # Key(w.op, w.row)
        /\ End(c, CASE Refused(c)     -> "error"
                    [] w.op = "add"   -> "count"
                    [] OTHER          -> "commit")

\* _collection_response counts and lists in two queries; the request's own row shows
Seen(c) == {i.app : i \in {j \in items : j.of = client[c].row.of}}
           \cup IF Flushed(c) THEN {client[c].row.app} ELSE {}

CountItems(c) ==
    /\ client[c].at = "count"
    /\ client' = [client EXCEPT ![c] = [@ EXCEPT !.at = "list", !.count = Cardinality(Seen(c))]]
    /\ UNCHANGED <<tables, served>>

ListItems(c) ==
    /\ client[c].at = "list"
    /\ client' = [client EXCEPT ![c] = [@ EXCEPT !.listed = Seen(c),
                                                 !.at = IF client[c].op = "show" THEN "ok" ELSE "commit"]]
    /\ UNCHANGED <<tables, served>>

\* A row another session has deleted is deleted once more without an error
Committed(c) ==
    LET w == client[c]
    IN  CASE w.op = "favorite"   ->
                 /\ favorites' = favorites \cup {w.row}
                 /\ events' = events \cup {[kind |-> "favorite", row |-> w.row.id, by |-> c, alone |-> w.alone]}
                 /\ UNCHANGED <<collections, items>>
          [] w.op = "unfavorite" ->
                 /\ favorites' = favorites \ {w.row}
                 /\ events' = events \cup {[kind |-> "unfavorite", row |-> w.row.id, by |-> c, alone |-> w.alone]}
                 /\ UNCHANGED <<collections, items>>
          [] w.op = "create"     -> /\ collections' = collections \cup {w.row}
                                    /\ UNCHANGED <<favorites, events, items>>
          [] w.op = "add"        -> /\ items' = IF Flushed(c) THEN items \cup {w.row} ELSE items
                                    /\ UNCHANGED <<favorites, events, collections>>
          [] w.op = "take"       -> /\ items' = items \ {w.row}
                                    /\ UNCHANGED <<favorites, events, collections>>
          [] w.op = "drop"       -> /\ collections' = collections \ {w.row}
                                    /\ items' = {i \in items : i.of # w.row.id}
                                    /\ UNCHANGED <<favorites, events>>

\* A collection with an uncommitted item is locked against its deletion
Commit(c) ==
    /\ client[c].at = "commit"
    /\ client[c].op = "drop" =>
          \A d \in Clients : Flushed(d) /\ client[d].op = "add" => client[d].row.of # client[c].row.id
    /\ Committed(c)
    /\ client' = [d \in Clients |-> IF d = c THEN [client[d] EXCEPT !.at = "ok"]
                                    ELSE [client[d] EXCEPT !.alone = @ /\ client[d].at \in Ended]]
    /\ UNCHANGED served

LibraryNext ==
    \E c \in Clients :
        \/ \E u \in Users :
              \/ \E a \in LibraryApps : AddFavorite(c, u, a) \/ RemoveFavorite(c, u, a)
              \/ \E n \in Names, public \in BOOLEAN : CreateCollection(c, u, n, public)
              \/ \E k \in collections : \/ DeleteCollection(c, u, k)
                                        \/ \E a \in LibraryApps : AddItem(c, u, k, a) \/ RemoveItem(c, u, k, a)
        \/ \E k \in collections : ShowCollection(c, k)
        \/ Insert(c) \/ CountItems(c) \/ ListItems(c) \/ Commit(c)

LibrarySpec == LibraryInit /\ [][LibraryNext]_libraryVars

--------------------------------------------------------------------------------

Rows == [id : 0 .. MaxServed] \cup [id : 1 .. MaxServed, user : Users, app : LibraryApps]
        \cup [id : 1 .. MaxServed, user : Users, slug : Names \X (1 .. MaxServed),
               public : BOOLEAN]
        \cup [id : 0 .. MaxServed, of : 1 .. MaxServed, app : LibraryApps]
        \cup [id : {0}, of : 1 .. MaxServed]

LibraryTypeOK ==
    /\ favorites \cup collections \cup items \subseteq Rows
    /\ events \subseteq [kind : {"favorite", "unfavorite"}, row : 1 .. MaxServed, by : Clients,
                        alone : BOOLEAN]
    /\ client \in [Clients -> [at : Ended \cup {"insert", "count", "list", "commit"},
                               op : Inserting \cup {"none", "unfavorite", "take", "drop", "show"},
                               row : Rows, count : 0 .. Cardinality(LibraryApps), listed : SUBSET LibraryApps,
                               alone : BOOLEAN]]
    /\ served \in 0 .. MaxServed

EventsOf(kind, id) == {e \in events : e.kind = kind /\ e.row = id}

\* What the aggregates count is what happened: a favourite has the event that made it and
\* none that removed it until it is gone; a second removal of it is one that overlapped
\* the first
FavoritesCounted ==
    \A id \in 1 .. MaxServed :
        LET there == \E f \in favorites : f.id = id
        IN  /\ there => EventsOf("favorite", id) # {} /\ EventsOf("unfavorite", id) = {}
            /\ EventsOf("favorite", id) # {} => there \/ EventsOf("unfavorite", id) # {}
            /\ \A e, f \in EventsOf("unfavorite", id) : e # f => ~e.alone \/ ~f.alone

\* A request nobody interferes with is never refused by a constraint, and the count in its
\* answer is the number of the applications it lists
AloneIsServed ==
    \A c \in Clients : LET w == client[c] IN
        w.alone => /\ w.at # "error"
                   /\ w.op \in {"add", "show"} /\ w.at \in {"commit", "ok"}
                          => w.count = Cardinality(w.listed)

LibraryHonest == FavoritesCounted /\ AloneIsServed

================================================================================
