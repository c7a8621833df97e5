# A TLA+ model of fsmud

fsmud is a multi-user dungeon. A Go program accepts browsers (WebSocket) and
telnet connections; the game itself, the *mudlib*, is JavaScript in one V8
isolate (`domain/scripts`, `domain/cmds`). Player files are JSON. This directory
holds TLA+ modules of the game and of the goroutines around it, their TLC
configurations, and proofs that TLAPS checks.

## The system

| Component | State it keeps | Operations | Model |
|---|---|---|---|
| Client manager, `utils/client/manager.go` | `clients` (connection to id, room, transport), guarded by `mu` | Add, Remove, Get, UpdateRoom, Broadcast, SendToClient | `Server` |
| Connection handlers, `utils/handlers` | a goroutine per connection; telnet: line, history, history index | read, processCommand, reply, room update, cleanup, line editing | `Server`, `Mudlib`, `Writers`, `TelnetLine` |
| Sessions, `scripts/player.js`, `scripts/command.js`, `cmds/{login,set,finish,quit,priv}.js` | `players`: by connection id, by uuid after `finish`, and under `undefined` | addPlayer, removePlayer, login, set, finish, quit, priv | `Mudlib` |
| Object cache and files, `scripts/objects.js`, `v8funcs/file.go` | `cache.players`, `domain/players/<uuid>.json` | loadObject, saveObject, clone, save | `Mudlib`, `PlayerFiles` |
| Map and items, `scripts/{area,item}.js`, `cmds/{go,get,drop,clone}.js` | the area's `items`, one shared object per kind of item, inventories | go, get, drop, clone | `Mudlib` |
| Messages, `cmds/{talk,say}.js`, `scripts/broadcast.js`, `v8funcs/broadcast.go` | none | talk, say, broadcasts, sendToPlayer | `Mudlib` (who is addressed), `Server` (delivery), `Writers` (order) |
| Clock, `scripts/cache.js`, `v8funcs/interval.go` | heartbeat, phase of the day, timers and their goroutines | setInterval, clearInterval, tick | `GameClock`, `Server` |
| Reload and shutdown, `v8funcs/{reload,shutdown}.go`, `cmd/mud/main.go` | `ShutdownChan` | reloadJSON, reloadJs, shutdown | `Mudlib`, `GameClock`, `Server`, `PlayerFiles` |
| V8 binding, `utils/v8go` | per context: tracked values and the next id; per isolate: callbacks, scripts, contexts by number; wrappers of templates | the C functions of `v8go.cc`, callbacks, termination, Close, Dispose, finalizers | `Binding`, `Templates` |
| LPC parser, `utils/lpcparser` | position and one rune of lookahead; current token | NextToken, Parse | `LpcParser`; linked into no program |
| Language texts, `scripts/i18n.js` | `messages` | i18n, loadLanguage | not modelled |
| Combat, `cmds/attack.js`, `scripts/{combat,npc}.js` | `cache.npcs` | attack | not modelled: it cannot find a target |
| Object loader, `utils/obj` | nested maps | LoadJSONTree, Get, Set, Add | not modelled: called by nothing |
| Front end, Two.js | | | not modelled: display, third-party code |

How they interact. A handler reads an input, looks its client up under `mu`, and
runs `processCommand` in the isolate. The script changes `players`, the cache
and the files, and calls back into Go: `sendToPlayer` takes `mu` while the
script still holds the isolate. `Add` and `Remove` go the other way: they hold
`mu` and run a script. After a command, a browser's handler runs a second
script to learn the player's area and stores it in the client. The clock's
goroutine runs a script every second and tells every player when the phase of
the day changes. `shutdown` closes a channel on which `main` waits to exit.

What is hard about it: two locks taken in both orders; two registries of the
same players; a cache whose objects are sometimes copies and sometimes shared
with sessions; `players` entries that loading a file leaves behind; a process
that exits without waiting for a save; a clock that each reload starts again;
connections with several writers; a C++ heap whose objects Go's collector frees.
Every such place is listed, with its line, under `hazards` in `PROJECT.json`.

## Modules

**`Mudlib`** is the JavaScript world. A script runs alone, to its end or to the
exception it throws, so each command is one action: `processCommand`'s checks
(`CanRun`), the command's own, and everything it calls (the save, the second
key, the objects that loading a file leaves in `players`). Variables and code:

| Variable | Code |
|---|---|
| `nconn`, `open`, `clients` | ids given out, sockets that work, `ClientManager.clients` |
| `online`, `players` | keys and objects of `players` under connection ids |
| `alias` | `players[uuid]`, set by finish |
| `ghost` | `players["undefined"]`: every `Player` built from a file registers itself there (`player.js:61`); a login by copy gives that object the session's id |
| `cache` | `cache.players[uuid]`: a `Player` from the boot, which `loadObject` copies, or, after a save, a plain object, which it hands out as it is |
| `files` | `domain/players/<uuid>.json` |
| `bags` | the inventory arrays; `ref` in a session or cached object says which one it uses, so sharing is explicit |
| `ground`, `proto` | `area.items`, and the position inside the one shared object of each kind, which `drop` pushes and moves |
| `nclones`, `restarts` | counters of the bounds |

An account is a name, a uuid and a file in one, as `save()` writes them (one of
the two shipped player files was edited by hand and repeats the other's uuid;
it is in the hazards). Passwords are a choice between `Login` and
`LoginRejected`. `processCommand` runs any global function by the name that was
typed, not only the files of `domain/cmds`. Of the others, `preloadCache` is an action
(`ReloadJSON`, for anybody). The rest get a player and a string for their arguments and are
left out: they throw, only read, touch entries and files named "[object Object]" that
no search finds, start another clock as a reload does (`updateTime`), or end the
process (`setInterval`, as `Crash` does).
`login` of a name without a file throws before it can create a
player (`LoginUnknown`). Item and player attributes that no property tells
apart are left out. A connection number stands for the id that
`GeneratePlayerID` makes from the time. Commands that change nothing (`look`,
`stats`, `help`, `say`, `describe`) are not actions.

**`Server`** is the concurrency: a program counter per goroutine, the two locks,
the two registries, each browser's room. Of a command it keeps what the locks
see: how many messages it sends, and whether it throws, quits or enters the
area; and of `players`, besides the sessions, the object that loading a file leaves
under `undefined` (`ghost`: the id that a login wrote into it, or none), to which
`go` and `talk` send like to any other (`Found`). The mapping is action by action: `AddLock`/`AddRun` are `Add` up to and
after the isolate is taken, `Message`, `Get`, `Begin`, `End`, `Reply`, `ReadArea`,
`UpdateRoom` the handlers' loop, `Pick`/`Send` a `sendToPlayer`,
`PickAll`/`Broadcast` the announcements of reloads and shutdown,
`Fail`, `RemoveLock`, `RemoveRun`, `Clean` a failed read, `Tick`/`TickEnd` the clock.
The telnet handler's cleanup script for an unprintable byte names nobody and
changes nothing, so it is a stutter.

**`Registry`** is the abstract specification of `Server`: one registry, no
locks; a connection joins once, may quit, leaves once; a message reaches a
joined session, an announcement everybody in the registry and nobody else. A login
may leave its `shadow`, to which messages go on after a quit: that much of the
ghost cannot be abstracted from. `Server!Status` is the refinement mapping.

**`GameClock`** is the day of 1440 beats, the phases, and the timers with the Go
types of their keys: `setInterval` stores under an `int64`, `clearInterval`
looks for an `int32`, and the handle 0 is false in JavaScript, so no timer is
ever stopped. The model says so (`Cleared`) instead of assuming it.

**`PlayerFiles`** takes apart what `Mudlib` takes as one step, the save: `WriteFile`
empties the file (`Save`) and then writes it (`Write`), inside a script, so that no
other script runs between the two, but main may exit there (`Exit`), a signal may
come (`Kill`), and either half may fail, which `saveObject` ignores. `quit` saves and
removes the session in one script (`Quit`), a connection that fails saves nothing
(`Leave`). `cache` is
`cache.players[uuid]`, `byPath` the entries `preloadCache` makes under the file's
path, which decide what a reload reads again.

**`TelnetLine`** is the loop of `handleTelnet`, one action per byte: `mode` says which
`ReadByte` it is in, `line`, `history` and `index` are its variables, `row` is what the
handler's echo has put on the terminal. **`LineEditor`** is its abstract
specification, in keys: a list of lines that ends with an empty one, through
which the arrows walk. The mapping is `place = index + 1`; a byte in the middle
of a sequence is a stutter.

**`Writers`** is what happens inside the sends of `Server`: the loops over `clients`,
under `mu`, and the handlers' replies, outside it, write to connections in
three steps each, as gorilla/websocket does (look at `isWriting`, write, reset it), and a
second writer panics. The isolate is left out, so that it shows what `mu` alone
ensures.

**`Binding`** is `v8go.cc` as the Go packages call it. Each exported function is one
definition, made of what they share: `Enter` (JavaScript runs, may call back, may
throw), `Yield` (a new tracked value), `Inspect` (nothing changes). `stack` is each
thread's nest of calls and callbacks, `vals`, `nextValId` and `mval` the table, the
counter and the values of `m_ctx`, `registry` Go's contexts by number, `goval` the
context in each Go `Value`. A new context's counter starts anywhere (`Starts`),
since nobody initialises it. Reactions of promises wait in `pending`, the isolate's
microtask queue, and run when the call depth is back at 0 (`CallDepthZero`) or Go asks
for it (`IsolatePerformMicrotaskCheckpoint`), in the context they belong to, closed or
not (`RunReaction`). `thrown` are the undefined values that `ThrowException` returns,
whose Go `Value` has no context. **`Arena`** is its abstract specification: values belong
to an arena and are freed once, alone or with it. The callers' part is in the
guards of `Close`, `ValueRelease` and `IsolateDispose`: nothing is used after it was
given up, and, since `ContextFree` and `ValueRelease` take no Locker, no other thread is in
the isolate then ("only one thread may access a given isolate at a time",
`isolate.go:47`). The code checks none of this. fsmud itself uses one isolate and one context and never closes,
releases or disposes; these operations are there for what the package offers.

**`Templates`** is the other half of the binding's memory: a call copies the address
of a template's wrapper and then waits for the Locker, while the collector may
find the Go template and its finalizer free the wrapper. `Careful` says whether
callers hold the template of the two calls that lack `runtime.KeepAlive`.

**`LpcParser`** is the lexer, rune by rune, and the parser, token by token;
**`LpcGrammar`** says without either what the tokens of a text are, where they
stand (`TokenPlaces`), from which places on a sequence of them has the shape of a
program or of the rest of a body (`Parses`), and that a program has, besides, its signs where
the parser's comments expect them (`Program`). Places and parses are recursive functions, over the tokens from the
first and from the last. Runes stand for the classes
the lexer tells apart, keywords are single letters.

**`MCMudlib`**, **`MCServer`** and the other `MC` modules give TLC its small worlds. **`MudlibProofs`**,
**`ServerProofs`** (with `GameClock`), **`PlayerFilesProofs`**, **`TelnetLineProofs`**,
**`WritersProofs`**, **`BindingProofs`**, **`TemplatesProofs`** and **`LpcProofs`** hold the theorems.

`Mut...` operators are plausible mistakes in the operator that follows them,
such as a lock released too early. They belong to no specification: put in the
place of that operator, each makes the property it is listed with in
`PROJECT.json` fail, which shows that the property depends on that code.

## Runs

| Run | Checks | States |
|---|---|---|
| `sessions` | `AliasLive`, `CacheCoherent` | 566 thousand |
| `items` | `TypeOK`, `NothingToLose`, `NoDuplication` | 332 thousand |
| `safe` | `TypeOK`, `SessionsHaveClients`, `SendFinds`, `RoomIsCurrent`, `ImplementsRegistry`, `OnlyCrossingStops` | 68 thousand |
| `clock` | `ClockTypes`, `PhaseOrder`, `DayGoesOn` | 24 thousand |
| `files` | `TypeOK`, `SavedIsLoadable`, `FilesCurrent`, `OneFileAnEnd`, `OutForGood` | 9 thousand |
| `line` | `TypeOK`, `EchoUntilRecalled`, `ImplementsEditor` | 485 thousand |
| `writers` | `OnlyRepliesCollide`, `SameOrder`, `MuReturns` | 547 thousand |
| `binding` | `TypeOK`, `TrackedExactly`, `HeldIsLive`, `GoAgreesOnContext`, `OnlyOrphansMiss`, `ImplementsArena` | 225 thousand |
| `templates` | `TypeOK`, `RightTemplate`, `WrappersFreed` | 119 thousand |
| `lpc` | `TypeOK`, `LexerRight`, `ParserRight`, `AstComplete`, `Stops` | 66 thousand |
| `talk`, `deadlock` | one property each, which the code violates | |

What they show:

- *sessions*: with logins to one account from several connections at once,
  creation, quitting and failing sockets in any order, the second key by uuid shows
  a live session, and cache and file agree.
- *items*: walking stays on the grid; when no account is used by two working
  connections, a stop between two commands loses nothing a session has, and only
  `clone` makes items. (With two, saves overwrite each other; the two properties
  are stated for single logins, and the code does nothing to enforce them.)
- *safe*: in every interleaving the two registries look like one, a session that was
  found is reached, all else that is sent to is the ghost's id, and the crossed locks
  are the *only* way in which the server stops.
- *clock*: phases come in order, however many clocks a reload leaves behind.
- *files*: while the process runs, what was saved is found by the next login, even
  if writes fail and the files are reloaded; it hangs on the entry under the
  file's path, which keeps a reload away from the broken file. Until a write has
  failed, an end of the process, in order or not, costs one file at the most; a
  file that is torn at a boot keeps its account out for good.
- *line*: bytes, with negotiation and sequences cut anywhere, amount to the keys of a
  line editor, and typing and erasing show what Enter will run.
- *writers*: two loops over the clients never write at the same time, all browsers
  hear broadcasts in the same order though each loop goes in an order of its own,
  and `mu` comes back from a loop that a collision ends.
- *binding*: whatever nests and whichever thread frees, no value that Go may use is
  freed, none is freed twice, none stays behind, the uninitialised counter does no
  harm, and only a reaction of a closed context misses its Go context.
- *templates*: careful callers never read a freed wrapper, and every wrapper is freed
  in the end.
- *lpc*: one rune of lookahead loses nothing; the parser stops on every text, takes
  every program, takes nothing that is not one but for its signs, and drops nothing of
  what it takes.

And places where the program does not do what it says. Two of them are runs:

- *talk* (`talk.js:6`): the message goes to the object under `undefined`. A wrong
  password for an account is enough to create it.
- *deadlock* (`websocket.go:68`): a connection made while a script sends a message
  can stop the server: `Add` holds `mu` and waits for the isolate, the script
  holds the isolate and waits for `mu`.

Five more are cases that a passing property names, and says to be the only ones:

- `quit.js:7`, "Save your progress and exit the game": a login writes its connection's
  id into the object under `undefined`; after the player has quit, whoever walks to
  the place of that object still sends to his connection (`go.js:35`). `SendFinds` has
  this id as its second case, `Registry` calls it the shadow.
- `v8go.cc:487`, a callback "can be called from any Context": a promise reaction whose
  context was closed while it waited calls a Go function, and `goContext` reads a nil
  context (`context.go:164`). `OnlyOrphansMiss`.
- `v8go/CHANGELOG.md:66`, "keeping alive the template while its C++ pointer is still being
  used": `SetInternalFieldCount` and `InternalFieldCount` do not (`object_template.go:66`, `72`).
  With `Careful = FALSE` a call reads a wrapper that is freed, or another's; `RightTemplate`
  holds for callers that keep the template themselves.
- `lpcparser.go:190`, directives always start in column 1: the flag for the start of a
  line is set at every token, so that `a#b` has a directive in the middle of a line. The
  grammar's `OpensDirective` is the comments' rule (`StartsLine`) and this case (`Glued`).
- `lpcparser.go:425`, `459` to `470` and `525`, a semicolon, a parenthesis, a brace "is
  expected": `expect` compares types, and any operator passes for any other.
  `ParserRight` has the comments' programs (`Program`) on one side, what passes (`Shape`) on
  the other.

What the modules take from the code as it is, and a reader might not expect:
`priv` leaves the session online as it was (`Mudlib!Priv`); picking up one of two
dropped items of a kind removes both (`LeftOnGround`); a shutdown while another
player's command is saving leaves an empty file (`PlayerFiles!Exit`); a cursor key
draws a blank too many (`TelnetLine!Redraw`); a reply that meets a message from
another goroutine ends its connection and leaves its client behind (`Writers!Panic`);
a conversion whose JavaScript throws ends the process (`Binding`'s `crash`); a newline
behind a word, a number or a directive is not counted (`LpcParser!PeekRune`).

Bounds and why they suffice. Three connections allow two sessions of one
account beside a third party, and a browser beside telnet; two accounts allow
`Player.load` to pass one file on the way to another. One kind of item that can be
dropped and one that cannot (`Resolvable`), two tiles and a wall, and three
places on the ground allow two shared entries and a clone. One restart shows
what the files hold; a second starts from files of the same kind. In `Server`,
one message per script is enough to cross the locks, and two allow a second one
to a player who has begun to leave; a browser, a telnet player and the clock are
the three kinds of goroutine, and more of a kind are the subject of the
theorems. Three
timers allow the handle 0, a handle other than 0 that is cleared, and the one
after it. `heard` counts modulo 2, so that a refinement step shows whether a
message was received, without a counter. `MaxGround`, `MaxConns`, `MaxClones`,
`MaxRestarts`, `MaxSends`, `MaxTimers` are bounds of the model only.

`PlayerFiles` has two accounts, since a save tears one file while another must stay
whole, and two ends, since a torn file shows at the boot after the first one.
`TelnetLine` has ten bytes, which between them are every case of the loop, some in two
roles (A, B and [ are letters too, WILL is also an option), and lines and a history of two,
enough for both ends of the index and a step between. `Writers` has two browsers
and the clock, so that a third goroutine waits while two collide; each
broadcasts once, which allows three broadcasts to cross. Replies are of one
message and of two, of which the second meets a collision behind the first; the
four of an exception only repeat that. `Binding` has two threads, two
contexts, two addresses beside null and undefined, counters that start at -1
(so that the first id is 0) and at 0, ids enough for one primitive beside null and
undefined and for two values of a context (`FewIds`), and a nest of three: a call, a
reaction or callback in it, and a call of that one's. `Templates` has a template of either
kind and a thread more: two threads share a template in their calls while a third
creates the other. Two templates are enough for one to get the address of the other;
the theorems hold for any number. `LpcParser` reads all
texts of up to three runes, and all that are one dropped, replaced or
doubled lexeme, or a cut, away from a program with every production, its lexemes
joined without space, with blanks or with newlines. `MaxVersion`, `MaxEnds`,
`MaxLine`, `MaxHistory`, `MaxId`, `MaxDepth`, `MaxArgs` and `Lengths` are bounds of the model only.

Deadlock is not checked. In `Mudlib`, connections and restarts are used up and the
world stands still; in `GameClock` and `Writers`, the process has ended; in `PlayerFiles`, `Binding` and `Templates`, the
bounds are used up or the isolate is disposed; in `TelnetLine`, the connection is closed; in
`LpcParser`, the parser is done; in `Server`, it is a known
outcome that `EveryInputProcessed` and `OnlyCrossingStops` describe exactly.

Fairness. `Server!FairSpec` gives each goroutine strong fairness on its own
steps: the Go scheduler runs what can run, `sync.Mutex` hands itself to a waiter
after a millisecond, and scripts are short, so that whoever wants the isolate
again and again finds it free at his turn. Connecting, typing and failing are the world's
and carry no fairness. `GameClock!FairClock` gives weak fairness to the first
`preloadCache` and to a Go ticker; reloads and shutdowns carry none.
`Writers!FairSpec` gives weak fairness to each goroutine inside a loop or a reply: it
runs unless it waits for `mu`, and none of these steps does. `Templates!FairSpec` gives it to a
C call that waits for the Locker, whose holders give it up, to the collector,
which runs at least every two minutes, and to the finalizers' goroutine; using and
dropping a template are the program's and carry none. `LpcParser!FairSpec` says that
`Parse`, which waits for nobody, goes on.

## Theorems

For every value of the constants (accounts, items, maps, connections, bounds):

| Theorem | States | Argument |
|---|---|---|
| `Types` | `Mudlib!TypeOK` | with `CoreOK`, the parts that hold items and what a search leaves behind (`RestOK`); `LeftOnGroundPlaced` says what the filter of `get` leaves, for an array of any length |
| `ItemsAreKept` | `NoDuplication` | over finite accounts and kinds (`AccountsFinite`, `InFilesFinite`): a drop takes out of the one file what it puts on the ground, `get` the other way round, and a save of an account with one session changes nothing else (`CacheCoherent`, `NothingToLose`) |
| `RegistrySafe` | `AliasLive`, `RegistriesAgree` | with typing (`CoreOK`) and `SessionIdentity` they are inductive together: `AliasLive` needs the id in a session to be its key, since `quit` removes by that id |
| `CacheMatchesFiles`, `StopLosesNothing`, `NobodyInAWall` | `CacheCoherent`, `NothingToLose`, `OnPassableTile` | `WorldInv`: an inventory array is held by objects of one account only (`ArraysApart`), so a push or splice in a session changes no other account's cached array; with single logins the session's array is the cached one |
| `ServerInv` | types, who holds which lock (`LocksHeld`), how far each connection is in the registries (`Registered`), that running scripts have a session (`Running`), that rooms are current (`Rooms`) | the invariant behind the next three |
| `ServerTyped` | `Server!TypeOK` | a conjunct of `ServerInv` |
| `RegistriesSafe` | `SessionsHaveClients`, `SendFinds` | a `Remove` past its first half holds `mu`, so with `mu` free every session has its client; what a script sends to is a session, which nothing removes while the script holds the isolate, or the ghost's id, which no other script changes meanwhile |
| `RoomFollowsArea` | `RoomIsCurrent` | a player's area changes by his own script alone |
| `RefinesRegistry` | `ImplementsRegistry` | step simulation under `Status`: `AddRun` is a join, the first half of `Remove` the leave, a quitting `End` the quit, a `Begin` that loads files moves the shadow, `Send` and `Broadcast` are the messages, all else a stutter; the shadow's connection has always joined, so a message to it goes to one that has joined, has quit, or has left and hears nothing |
| `ClockSafe`, `PhasesInOrder` | `ClockTypes`, `TimersTracked`, `PhaseOrder` | the phase announced is that of the heartbeat; one beat later the hour is the same or the next |
| `FileTypes`, `SavedStays` | `TypeOK`, `SavedIsLoadable` | `SaveInv`: what a session has was saved last and is cached (`CacheAgrees`), an account without an entry under its path has a torn file (`PathAgrees`), or none to offer (`OutMeansTorn`) |
| `FilesAreCurrent`, `OneFileForAnEnd`, `TornIsOut` | `FilesCurrent`, `OneFileAnEnd`, `OutForGood` | a file that is in use agrees with the last save; an end adds the file of the save it interrupts, at the most; an account that is out cannot log in, so nothing writes its file |
| `IndexInRange`, `EchoSafe`, `RefinesEditor` | `TypeOK`, `EchoUntilRecalled`, `ImplementsEditor` | one invariant of typing and display; step simulation, the bytes of a sequence stuttering |
| `WriterTypes`, `LoopsApart` | `TypeOK`, `OnlyRepliesCollide` | `LockInv`: a goroutine in a loop over clients holds `mu`, a reply writes to its own connection |
| `BroadcastsOrdered` | `SameOrder` | `OrderInv`: what one browser has heard and another has not is, for the loop under way, still to come, and each broadcast is last where it is heard |
| `TypesHold`, `TablesExact`, `NoDanglingValues`, `ContextsAgree` | `TypeOK`, `TrackedExactly`, `HeldIsLive`, `GoAgreesOnContext` | `MemoryInv`: besides, ids stay below the counter (`IdsBelowNext`) and only open contexts track (`OnlyOpenTrack`); the results of `ThrowException` are told apart (`thrown`) |
| `OthersFind`, `DisposeFreesAll` | `OnlyOrphansMiss`, `DisposedClean` | `StackInv` and `LifeInv`: a frame's context is open and registered unless the frame is a reaction's, directly on the queue's; the internal context lives as long as the isolate |
| `BindingImplementsArena` | `ImplementsArena` | step simulation: each shared step is an allocation, a release, an opening or a closing, or a stutter |
| `TemplateTypes`, `CallsReadTheirTemplates`, `CallbacksRegistered` | `TypeOK`, `RightTemplate`, `CallbackFound` | `TmplInv`, for careful callers: addresses and wrappers are each other's inverse (`Owned`), templates in calls are not collected (`CallsAlive`), what JavaScript has is registered (`Registered`) |
| `ParserTyped`, `LexerIsRight` | `LpcParser!TypeOK`, `LexerRight` | `LexInv`: what was returned are the first tokens of the text (`TokensRight`); in each loop of `NextToken` the runes since the token began are in its class (`Scanned`), between tokens there are only spaces (`Spaces`), and the place read so far is `at`, less the rune that was peeked at (`Pos`); so a loop that returns stands where the grammar ends the token |
| `ParserIsRight` | `ParserRight` | `Parsed`: the text has the shape of a program if and only if the tokens left are what the state of the parser waits for (`Accepts`), as the equation of `Parses` has it (`ProgramIs`, `BodyIs`); a text that ends in an open string is not closed (`ErrorStep`); so the parser accepts the shapes exactly (`ParserShape`), and every program has the shape |
| `TreeIsComplete` | `AstComplete` | `Written`: the tree and the node under way are what is to be kept of the tokens consumed (`Keeping`); a keyword at the head of a function, or a return, is settled by the token behind it; `FlattenAppend` says what one more node adds to the tree |

The assumptions are those named in the modules: identifiers apart from each
other, the files read once each in some order, start tile and saved positions
not in a wall, finite sets where things are counted, texts of the runes the lexer tells apart,
keywords that are words.

Only proved, and checked by no run: `RegistriesAgree`, `OnPassableTile`, `TimersTracked`,
`SessionIdentity`, `DisposedClean`, `CallbackFound` and the type invariant of `Writers`. They are
conjuncts of the inductive invariants above, or follow from them.

Only model-checked: everything about liveness (`OnlyCrossingStops`, `DayGoesOn`,
`MuReturns`, `WrappersFreed`, `Stops`). Every invariant and every step property that a passing
run checks is also proved.

Induction, where a proof needs it, is over a set of numbers: every set of naturals that is not
empty has a least member (`LeastOfNats`, from the library's well-founded order of the naturals), so a set
that has 0 and with each number the next has them all (`Induction`), and a function that is
defined by recursion over the naturals exists (`RecursionExists`). `LeftOnGround`,
`TokenPlaces`, `Parses` and the flattening of a tree are such functions: that each exists is a lemma (`PlacesExist`,
`ParsesExist`, `FlattenExists`), and the proofs use its equation. `NoDuplication` counts places, of files and of the ground, in place of a sum
over accounts, so that both can be reasoned about.

Not modelled:

- a write to a socket that blocks, and the read of `len(m.clients)` without the lock;
- a collision (`Writers`) inside a script: the panic unwinds past V8's frames, whose
  Locker nobody gives back; `Writers` has no isolate, and `Server` no panics;
- power failures, which lose writes the process has finished, and the
  administrators' flag in `PlayerFiles`;
- `reloadJs` (most of its scripts fail on their second run, since they declare
  `let` and `class` names again);
- of the binding: other threads inside the isolate during Release and Close; the CPU profiler, heap statistics, shared backing stores and the
  functions of templates once more in `Binding`; a string beyond V8's limit, behind
  which `JSONParse` goes on without returning (`v8go.cc:721`); use after Release, Close
  or Dispose, which the package leaves to its callers;
- texts: wording, and the replacements of `i18n`; the one text with a condition is
  used by no command;
- combat: `attack` looks for NPCs near the player, and no NPC has a place;
  the other functions use names that nothing defines;
- the object loader and `LPCObject`, which nothing calls, the front end, and passwords.

## Plan

All components with state that a running server reaches are modelled. What would
come next:

1. `Writers` and `Server` composed, with the panic that leaves the Locker taken.
2. `Mudlib` and `PlayerFiles` composed: several sessions of one account over failing saves.
3. The CPU profiler, whose profiles are freed by their own `Delete`.
4. Theorems: `Writers` as the detail behind the sends of `Server`, and `PlayerFiles` as that
   behind the saves of `Mudlib`, step by step.
