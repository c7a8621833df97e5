------------------------------- MODULE Mudlib -------------------------------
(***************************************************************************)
(* The JavaScript world of the server: the dictionary of players, the      *)
(* cache of player objects beside the player files, the items on the       *)
(* ground of the area, and the commands that change them.                  *)
(*                                                                         *)
(* V8 runs one script at a time (every call takes the isolate's Locker),   *)
(* so a script that runs to its end, or to the exception it throws, is one *)
(* action.  Module Server has the goroutines and locks around the scripts. *)
(*                                                                         *)
(* A name, a uuid and a player file are one account.  Connection numbers   *)
(* stand for the ids of GeneratePlayerID: they grow with time, are never   *)
(* used twice, and their order is the insertion order of players.          *)
(***************************************************************************)
EXTENDS Integers, FiniteSets, SequencesExt

CONSTANTS
    MaxConns,    \* connections the run may see, a bound on the ids
    Websockets,  \* the connections made by a browser; the others are telnet
    Accounts,    \* the player files under domain/players
    NoAccount,   \* the empty name of a session that has not logged in
    FileOrder,   \* the accounts in the order of fileLists.players
    Fields,      \* what finish asks for: nickname, race, bio
    Kinds,       \* the items under domain/items, by id
    Resolvable,  \* the kinds whose name in lower case is their id
    Width, Height, Walls,  \* the grid of domain/areas/entrance.json
    BootFile,    \* the player files before the first start
    Commands,    \* the commands loaded from domain/cmds, and preloadCache
    SingleLogin, \* TRUE: no login to an account a working connection uses
    MaxGround,   \* bound on the entries of the area's items
    MaxClones,   \* bound on the items an administrator makes
    MaxRestarts  \* bound on crashes and shutdowns

Conns == 1 .. MaxConns
Tiles == (0 .. Width - 1) \X (0 .. Height - 1)
Nowhere == <<-1, -1>>
Start == <<0, 0>>
Refs == Conns \cup Accounts  \* the inventory arrays, by who made them

Profile == [admin: BOOLEAN, area: {"creation", "entrance"}, pos: Tiles,
            filled: SUBSET Fields]
File == [data: Profile, bag: Seq(Kinds)]

CreationCommands == {"set", "finish", "quit"}
AdminCommands == {"shutdown", "priv", "reloadJSON"}

\* The files are read in one order that names each of them, start tile
\* and saved tiles can be stood on, a connection number is no account.
ASSUME ConnAssumption == /\ MaxConns \in Nat \ {0}
                         /\ Websockets \subseteq Conns
ASSUME AccountAssumption == /\ Accounts # {}
                            /\ NoAccount \notin Accounts
                            /\ Accounts \cap Conns = {}
ASSUME OrderAssumption == /\ FileOrder \in Seq(Accounts)
                          /\ \A a \in Accounts :
                               \E i \in 1 .. Len(FileOrder) : FileOrder[i] = a
ASSUME MapAssumption == /\ Width \in Nat \ {0} /\ Height \in Nat \ {0}
                        /\ Walls \subseteq Tiles /\ Start \notin Walls
ASSUME FileAssumption == /\ BootFile \in [Accounts -> File]
                         /\ \A a \in Accounts : BootFile[a].data.pos \notin Walls
ASSUME ItemAssumption == Resolvable \subseteq Kinds
ASSUME BoundAssumption == /\ SingleLogin \in BOOLEAN
                          /\ MaxGround \in Nat /\ MaxClones \in Nat
                          /\ MaxRestarts \in Nat
-----------------------------------------------------------------------------
VARIABLES
    nconn,    \* how many ids were given out
    open,     \* connections whose socket is open
    clients,  \* ClientManager.clients
    online,   \* the session ids that are keys of players
    players,  \* their objects (a blank object where there is no key)
    alias,    \* players[uuid], set by finish: the session it shows, or 0
    ghost,    \* the object that loading a player file leaves in players
    cache,    \* cache.players: a boot-time "Player", or the last saved "Object"
    files,    \* domain/players/<uuid>.json
    bags,     \* the contents of the inventory arrays
    ground,   \* the items array of the area
    proto,    \* the position kept in the one shared object of each kind
    nclones,  \* items made by clone so far
    restarts  \* crashes and shutdowns so far

registry == <<nconn, open, clients, online, players, alias, ghost>>
store == <<cache, files>>
items == <<bags, ground, proto, nclones>>
vars == <<registry, store, items, restarts>>

Transport(c) == IF c \in Websockets THEN "websocket" ELSE "telnet"

NewProfile == [admin |-> FALSE, area |-> "creation", pos |-> Start, filled |-> {}]

\* new Player({ id, area, connectionType }): everything else is a default.
Blank(c) == [id |-> c, acct |-> NoAccount, ctype |-> Transport(c),
             data |-> NewProfile, ref |-> c]

Player == [id: Conns, acct: Accounts \cup {NoAccount},
           ctype: {"websocket", "telnet"}, data: Profile, ref: Refs]
Cached == [class: {"Player", "Object"}, data: Profile, ref: Refs]
Ghost == [acct: Accounts, id: 0 .. MaxConns]
GroundItem == [kind: Kinds, serial: 0 .. MaxClones, shared: BOOLEAN,
               at: Tiles \cup {Nowhere}]

\* Area.isPassable
MutIsPassableBounds(t) == t \notin Walls
IsPassable(t) == t \in Tiles \ Walls

\* Where an entry of the items array lies: drop pushes the shared object of
\* the kind, whose x and y the next drop of that kind moves.
Where(e) == IF e.shared THEN proto[e.kind] ELSE e.at
-----------------------------------------------------------------------------
(* What a start of the process puts in memory: every player file is cached   *)
(* as a Player and cloned once; each of the two registers itself in players  *)
(* under the same key, where the last one read stays.                        *)

LastFile == FileOrder[Len(FileOrder)]
BootGhost == [acct |-> LastFile, id |-> 0]
BootCache(f) == [a \in Accounts |-> [class |-> "Player", data |-> f[a].data, ref |-> a]]
BootBags(f) == [r \in Refs |-> IF r \in Accounts THEN f[r].bag ELSE <<>>]

Init == /\ nconn = 0
        /\ open = {} /\ clients = {} /\ online = {}
        /\ players = [c \in Conns |-> Blank(c)]
        /\ alias = [a \in Accounts |-> 0]
        /\ ghost = BootGhost
        /\ files = BootFile
        /\ cache = BootCache(BootFile)
        /\ bags = BootBags(BootFile)
        /\ ground = <<>>
        /\ proto = [k \in Kinds |-> Nowhere]
        /\ nclones = 0
        /\ restarts = 0

\* Player.load visits the files up to the one that matches (all of them when
\* none does); each that is still cached as a Player is cloned, and the
\* clone replaces the object left in players.
Visited(a) == {i \in 1 .. Len(FileOrder) : \A j \in 1 .. i - 1 : FileOrder[j] # a}
LoadGhost(visited) ==
    LET cloned == {i \in visited : cache[FileOrder[i]].class = "Player"}
    IN  IF cloned = {} THEN ghost
        ELSE [acct |-> FileOrder[CHOOSE i \in cloned : \A j \in cloned : j <= i],
              id |-> 0]

\* save(): what is written, and what saveObject puts in the cache.
MutFileOf(p, b) == [data |-> p.data, bag |-> <<>>]
FileOf(p, b) == [data |-> p.data, bag |-> b[p.ref]]
MutEntryOf(p, e) == e
EntryOf(p, e) == [class |-> "Object", data |-> p.data, ref |-> p.ref]

Save(p, b) == /\ files' = [files EXCEPT ![p.acct] = FileOf(p, b)]
              /\ cache' = [cache EXCEPT ![p.acct] = EntryOf(p, @)]

\* removePlayer(id)
MutAliasWithout(id) == alias
AliasWithout(id) ==
    IF players[id].acct = NoAccount THEN alias
    ELSE [alias EXCEPT ![players[id].acct] = 0]

RemovePlayer(id) ==
    IF id \in online
    THEN /\ online' = online \ {id}
         /\ alias' = AliasWithout(id)
         /\ players' = [players EXCEPT ![id] = Blank(id)]
    ELSE UNCHANGED <<online, alias, players>>
-----------------------------------------------------------------------------
(* Connections.                                                              *)

\* ClientManager.Add and addPlayer
Connect == LET c == nconn + 1 IN
    /\ nconn < MaxConns
    /\ nconn' = c
    /\ open' = open \cup {c}
    /\ clients' = clients \cup {c}
    /\ online' = online \cup {c}
    /\ players' = [players EXCEPT ![c] = Blank(c)]
    /\ UNCHANGED <<alias, ghost, store, items, restarts>>

\* The id a failed read hands to removePlayer.  Remove looks it up in
\* clients; the handler's own playerID, tried after it, names nobody.
RemovedId(c) == c

\* A failed ReadMessage: Remove, then the handler's cleanup script.
DisconnectWebsocket(c) ==
    /\ c \in open \cap Websockets
    /\ open' = open \ {c}
    /\ clients' = clients \ {c}
    /\ RemovePlayer(RemovedId(c))
    /\ UNCHANGED <<nconn, ghost, store, items, restarts>>

\* A failed ReadByte: the handler returns and closes the socket, no more.
DisconnectTelnet(c) ==
    /\ c \in open \ Websockets
    /\ open' = open \ {c}
    /\ UNCHANGED <<nconn, clients, online, players, alias, ghost, store, items, restarts>>
-----------------------------------------------------------------------------
(* Commands: processCommand's checks, then the command's own.                *)

CanRun(c, cmd) ==
    LET p == players[c] IN
    /\ cmd \in Commands
    /\ c \in open \cap clients \cap online
    /\ p.acct = NoAccount <=> cmd = "login"
    /\ (p.data.area = "creation") => cmd \in CreationCommands \cup {"login"}
    /\ cmd \in AdminCommands => p.data.admin

\* The session after login copied the loaded object over it.
Adopt(c, e) == [id |-> c, acct |-> e.acct, ctype |-> Transport(c),
                data |-> e.data, ref |-> e.ref]

\* A cached Player is cloned: the session gets its own inventory array, and
\* the clone stays in players with the session's id.
LoginByClone(c, a) ==
    /\ cache[a].class = "Player"
    /\ players' = [players EXCEPT ![c] =
                     Adopt(c, [acct |-> a, data |-> cache[a].data, ref |-> c])]
    /\ bags' = [bags EXCEPT ![c] = bags[cache[a].ref]]
    /\ ghost' = [acct |-> a, id |-> c]

\* A saved object has no clone(): the session shares its inventory array.
LoginByObject(c, a) ==
    /\ cache[a].class = "Object"
    /\ players' = [players EXCEPT ![c] =
                     Adopt(c, [acct |-> a, data |-> cache[a].data, ref |-> cache[a].ref])]
    /\ ghost' = LoadGhost(Visited(a))
    /\ UNCHANGED bags

Login(c, a) ==
    /\ CanRun(c, "login")
    /\ SingleLogin => \A d \in online \cap open : players[d].acct # a
    /\ LoginByClone(c, a) \/ LoginByObject(c, a)
    /\ UNCHANGED <<nconn, open, clients, online, alias, store, ground, proto, nclones, restarts>>

\* A wrong password: the files were visited all the same.
LoginRejected(c, a) ==
    /\ CanRun(c, "login")
    /\ ghost' = LoadGhost(Visited(a))
    /\ UNCHANGED <<nconn, open, clients, online, players, alias, store, items, restarts>>

\* An unknown name: every file is visited, then null.connectionType throws.
LoginUnknown(c) ==
    /\ CanRun(c, "login")
    /\ ghost' = LoadGhost(1 .. Len(FileOrder))
    /\ UNCHANGED <<nconn, open, clients, online, players, alias, store, items, restarts>>

\* A field, or lang, which a player always has.
Set(c, f) ==
    /\ CanRun(c, "set")
    /\ players[c].data.area = "creation"
    /\ players' = [players EXCEPT ![c].data.filled = @ \cup f]
    /\ Save(players'[c], bags)
    /\ UNCHANGED <<nconn, open, clients, online, alias, ghost, items, restarts>>

Finish(c) ==
    /\ CanRun(c, "finish")
    /\ players[c].data.area = "creation"
    /\ players[c].data.filled = Fields
    /\ players' = [players EXCEPT ![c].data.area = "entrance"]
    /\ alias' = [alias EXCEPT ![players[c].acct] = c]
    /\ Save(players'[c], bags)
    /\ UNCHANGED <<nconn, open, clients, online, ghost, items, restarts>>

Quit(c) ==
    /\ CanRun(c, "quit")
    /\ Save(players[c], bags)
    /\ RemovePlayer(players[c].id)
    /\ UNCHANGED <<nconn, open, clients, ghost, items, restarts>>

Steps == {<<0, -1>>, <<0, 1>>, <<1, 0>>, <<-1, 0>>}

Go(c, d) ==
    LET t == <<players[c].data.pos[1] + d[1], players[c].data.pos[2] + d[2]>> IN
    /\ CanRun(c, "go")
    /\ IsPassable(t)
    /\ players' = [players EXCEPT ![c].data.pos = t]
    /\ Save(players'[c], bags)
    /\ UNCHANGED <<nconn, open, clients, online, alias, ghost, items, restarts>>

\* The first item of that name on the tile.
FirstAt(t, k) == SelectInSeq(ground, LAMBDA e : Where(e) = t /\ e.kind = k)

\* Area.removeItem(id) keeps what has another id: entries that drop put
\* down have the id of their kind, so they go together.
MutLeftOnGround(e) == ground
SameId(g, e) == g.serial = e.serial /\ (e.serial = 0 => g.kind = e.kind)
LeftOnGround(e) ==
    LET left[i \in 0 .. Len(ground)] ==
          IF i = 0 THEN <<>>
          ELSE IF SameId(ground[i], e) THEN left[i - 1]
          ELSE Append(left[i - 1], ground[i])
    IN  left[Len(ground)]

Get(c, k) ==
    LET p == players[c]
        i == FirstAt(p.data.pos, k)
    IN  /\ CanRun(c, "get")
        /\ i # 0
        /\ bags' = [bags EXCEPT ![p.ref] = Append(@, k)]
        /\ proto' = [proto EXCEPT ![k] = IF ground[i].shared THEN Nowhere ELSE @]
        /\ ground' = LeftOnGround(ground[i])
        /\ Save(p, bags')
        /\ UNCHANGED <<registry, nclones, restarts>>

\* findIndex looks every entry up by its name in lower case, and throws at
\* one that is no key of cache.items.
DropIndex(b, k) ==
    LET i == SelectInSeq(b, LAMBDA x : x = k)
    IN  IF \A j \in 1 .. i : b[j] \in Resolvable THEN i ELSE 0

Drop(c, k) ==
    LET p == players[c]
        i == DropIndex(bags[p.ref], k)
    IN  /\ CanRun(c, "drop")
        /\ i # 0
        /\ Len(ground) < MaxGround
        /\ bags' = [bags EXCEPT ![p.ref] = RemoveAt(@, i)]
        /\ Save(p, bags')
        /\ proto' = [proto EXCEPT ![k] = p.data.pos]
        /\ ground' = Append(ground, [kind |-> k, serial |-> 0, shared |-> TRUE,
                                     at |-> Nowhere])
        /\ UNCHANGED <<registry, nclones, restarts>>

\* An administrator's new item, under an id of its own.
Clone(c, k) ==
    LET p == players[c] IN
    /\ CanRun(c, "clone")
    /\ p.data.admin
    /\ nclones < MaxClones /\ Len(ground) < MaxGround
    /\ nclones' = nclones + 1
    /\ ground' = Append(ground, [kind |-> k, serial |-> nclones', shared |-> FALSE,
                                 at |-> p.data.pos])
    /\ UNCHANGED <<registry, store, bags, proto, restarts>>

Toggled(d) == [d EXCEPT !.admin = ~@]

\* priv on a cached Player: the clone is toggled and saved.  The loop over
\* players meets the clone itself first, and stops there.
PrivClone(a) ==
    LET t == [acct |-> a, ref |-> a, data |-> Toggled(cache[a].data)]
    IN  /\ cache[a].class = "Player"
        /\ Save(t, bags)
        /\ ghost' = [acct |-> a, id |-> 0]

\* priv on a saved object: toggled in the cache, then target.save throws.
PrivObject(a) ==
    /\ cache[a].class = "Object"
    /\ cache' = [cache EXCEPT ![a].data = Toggled(@)]
    /\ ghost' = LoadGhost(Visited(a))
    /\ UNCHANGED files

Priv(c, a) ==
    /\ CanRun(c, "priv")
    /\ PrivClone(a) \/ PrivObject(a)
    /\ UNCHANGED <<nconn, open, clients, online, players, alias, items, restarts>>

\* priv on a name without a file
PrivUnknown(c) ==
    /\ CanRun(c, "priv")
    /\ ghost' = LoadGhost(1 .. Len(FileOrder))
    /\ UNCHANGED <<nconn, open, clients, online, players, alias, store, items, restarts>>

\* preloadCache again: what is cached stays, and is cloned; in the clone of
\* the area every entry is a copy of what the array held.  processCommand runs
\* any global function, so a player who is no administrator can have
\* preloadCache by its own name.
ReloadJSON(c) ==
    /\ CanRun(c, "reloadJSON") \/ CanRun(c, "preloadCache")
    /\ ghost' = BootGhost
    /\ ground' = [i \in 1 .. Len(ground) |->
                    [ground[i] EXCEPT !.shared = FALSE, !.at = Where(ground[i])]]
    /\ UNCHANGED <<nconn, open, clients, online, players, alias, store,
                   bags, proto, nclones, restarts>>
-----------------------------------------------------------------------------
(* The process ends, and starts again from the files.                        *)

Restart ==
    /\ restarts < MaxRestarts
    /\ restarts' = restarts + 1
    /\ open' = {} /\ clients' = {} /\ online' = {}
    /\ players' = [c \in Conns |-> Blank(c)]
    /\ alias' = [a \in Accounts |-> 0]
    /\ ghost' = BootGhost
    /\ cache' = BootCache(files)
    /\ bags' = BootBags(files)
    /\ ground' = <<>>
    /\ proto' = [k \in Kinds |-> Nowhere]
    /\ UNCHANGED <<nconn, files, nclones>>

Shutdown(c) == CanRun(c, "shutdown") /\ Restart
Crash == Restart

Next == \/ Connect
        \/ Crash
        \/ \E c \in Conns :
             \/ DisconnectWebsocket(c)
             \/ DisconnectTelnet(c)
             \/ \E a \in Accounts : Login(c, a) \/ LoginRejected(c, a) \/ Priv(c, a)
             \/ LoginUnknown(c)
             \/ \E f \in {{x} : x \in Fields} \cup {{}} : Set(c, f)
             \/ Finish(c)
             \/ Quit(c)
             \/ \E d \in Steps : Go(c, d)
             \/ \E k \in Kinds : Get(c, k) \/ Drop(c, k) \/ Clone(c, k)
             \/ PrivUnknown(c)
             \/ ReloadJSON(c)
             \/ Shutdown(c)

Spec == Init /\ [][Next]_vars
-----------------------------------------------------------------------------
(* Properties.                                                               *)

\* Every piece of state has its type; in particular a coordinate a command
\* computes is a tile of the grid (go.js, login.js, objects.js).
TypeOK == /\ nconn \in 0 .. MaxConns
          /\ open \subseteq 1 .. nconn /\ clients \subseteq 1 .. nconn
          /\ online \subseteq 1 .. nconn
          /\ players \in [Conns -> Player]
          /\ alias \in [Accounts -> 0 .. MaxConns]
          /\ ghost \in Ghost
          /\ cache \in [Accounts -> Cached]
          /\ files \in [Accounts -> File]
          /\ bags \in [Refs -> Seq(Kinds)]
          /\ ground \in Seq(GroundItem)
          /\ proto \in [Kinds -> Tiles \cup {Nowhere}]
          /\ nclones \in 0 .. MaxClones
          /\ restarts \in 0 .. MaxRestarts

\* The second key that finish gives a player never outlives the session it
\* shows, not with two sessions of one account either (player.js:25-35).
AliasLive == \A a \in Accounts : alias[a] # 0 =>
                alias[a] \in online /\ players[alias[a]].acct = a

\* players and ClientManager.clients agree: a session belongs to a
\* registered connection, and a browser's connection leaves both when its
\* socket fails (websocket.go:49-61, manager.go:85-109).
RegistriesAgree == online \subseteq clients /\ clients \cap Websockets \subseteq open

SameProgress(d, e) == d.area = e.area /\ d.pos = e.pos /\ d.filled = e.filled

\* What is in the cache is what is in the file, the administrator flag that
\* priv may toggle in the cache alone excepted, although saved objects share
\* their inventory array with live sessions (player.js:65-90, objects.js:60-65).
CacheCoherent == \A a \in Accounts :
    /\ SameProgress(files[a].data, cache[a].data)
    /\ files[a].bag = bags[cache[a].ref]

\* Nobody stands inside a wall: not a session, not a cached player who will
\* log in later, not a player in a file (go.js:23-28, area.js:25-28).
OnPassableTile ==
    /\ \A c \in online : players[c].data.pos \notin Walls
    /\ \A a \in Accounts : cache[a].data.pos \notin Walls /\ files[a].data.pos \notin Walls

\* As long as no account is used twice, a crash or a shutdown between two
\* commands costs a player nothing: place, area, fields and inventory of a
\* session are in its file ("save" in set.js, go.js, get.js, drop.js,
\* finish.js; main.go:60-62 exits without saving).
NothingToLose == SingleLogin => \A c \in online \cap open : players[c].acct # NoAccount =>
    LET p == players[c] IN
    /\ SameProgress(files[p.acct].data, p.data)
    /\ files[p.acct].bag = bags[p.ref]

\* The copies of k: each place of an inventory in a file, or of the array of
\* the area, that holds one.
InFiles(f, k) == UNION {{a} \X {i \in DOMAIN f[a].bag : f[a].bag[i] = k} : a \in Accounts}
OnGround(g, k) == {i \in DOMAIN g : g[i].kind = k}
Total(k) == Cardinality(InFiles(files, k)) + Cardinality(OnGround(ground, k))

\* As long as no account is used twice, only clone makes items: no sequence
\* of get, drop, quit, login, reloadJSON and restart puts a second copy of
\* an item in the files or on the ground (get.js, drop.js).
NoDuplication ==
    [][SingleLogin => \A k \in Kinds : Total(k)' <= Total(k) + (nclones' - nclones)]_vars

\* The id talk sends to: the first entry of players with that name, and the
\* entry a file left there is the first of all (talk.js:25-48).
TalkReceiver(a) ==
    IF ghost.acct = a THEN ghost.id
    ELSE CHOOSE c \in online : /\ players[c].acct = a
                               /\ \A d \in online : players[d].acct = a => c <= d

\* talk.js:6, "Send a private message to another player.": when an account
\* has one session on a connection that works, talk sends to that session.
TalkDelivers == \A a \in Accounts :
    LET sessions == {c \in online \cap open : players[c].acct = a}
    IN  Cardinality(sessions) = 1 => TalkReceiver(a) \in sessions
=============================================================================
