----------------------------- MODULE PlayerFiles -----------------------------
(***************************************************************************)
(* Saving and loading player files, with what can go wrong in between.  A   *)
(* save empties the file and then writes it (ioutil.WriteFile), from inside *)
(* a script, so that no other script runs meanwhile; but main waits for no  *)
(* script before it exits, the process can be killed, and a failed write is *)
(* an error text that saveObject does not look at.                          *)
(*                                                                          *)
(* The data of an account is a version number: each command that changes a  *)
(* player saves him.  The cache has two entries for a file: one under its   *)
(* uuid, used by login and save, and one under its path, which only decides *)
(* whether a reload reads the file again.  An account has at most one       *)
(* session here; several are the subject of Mudlib.  There are no new       *)
(* accounts: login of an unknown name throws.                               *)
(***************************************************************************)
EXTENDS Naturals, FiniteSets

CONSTANTS
    Accounts,       \* the player files
    Torn,           \* the content of an empty or cut file: no JSON
    None,           \* no session, nothing cached, no save
    MaxVersion,     \* bound on the changes of an account
    MaxEnds         \* bound on the ends of the process

ASSUME ConstantsOK ==
    /\ IsFiniteSet(Accounts)
    /\ MaxVersion \in Nat /\ MaxEnds \in Nat
    /\ Torn \notin Nat /\ None \notin Nat \union Accounts

VARIABLES
    up,         \* the process runs
    exiting,    \* ShutdownChan is closed: main is about to exit
    file,       \* domain/players/<uuid>.json: a version, or Torn
    saving,     \* the account whose file WriteFile has emptied, or None
    session,    \* the version in the session of each account, or None
    cache,      \* cache.players[uuid]: a version, or None for null
    byPath,     \* the accounts whose cache.players[path] is not null
    last,       \* the version last given to saveFile, or read at the boot
    ends,       \* how often the process ended
    failed      \* a write has failed, as on a full disk

memory == <<up, exiting, session, cache, byPath, last, ends>>
vars == <<memory, file, saving, failed>>

Version == 0 .. MaxVersion
Whole(a) == file[a] # Torn
Nobody == [a \in Accounts |-> None]

TypeOK ==
    /\ up \in BOOLEAN /\ exiting \in BOOLEAN
    /\ file \in [Accounts -> Version \union {Torn}]
    /\ saving \in Accounts \union {None}
    /\ session \in [Accounts -> Version \union {None}]
    /\ cache \in [Accounts -> Version \union {None}]
    /\ byPath \subseteq Accounts
    /\ last \in [Accounts -> Version \union {None}]
    /\ ends \in 0 .. MaxEnds /\ failed \in BOOLEAN

\* A text that is not parsed.
MutFromFile(a) == file[a]

\* loadObject: what the file gives, or null when it cannot be parsed.
FromFile(a) == IF Whole(a) THEN file[a] ELSE None

Init ==
    /\ up = FALSE /\ exiting = FALSE /\ ends = 0 /\ failed = FALSE
    /\ file = [a \in Accounts |-> 0]
    /\ saving = None /\ session = Nobody /\ cache = Nobody /\ byPath = {}
    /\ last = Nobody

\* Two scripts at once.
MutScript == up
\* A script runs: no other does.
Script == up /\ saving = None

-----------------------------------------------------------------------------
\* main: LoadV8JSON runs preloadCache, which loads every file, before anybody
\* can connect.
Boot ==
    /\ ~up /\ up' = TRUE
    /\ cache' = [a \in Accounts |-> FromFile(a)]
    /\ byPath' = {a \in Accounts : Whole(a)}
    /\ last' = [a \in Accounts |-> FromFile(a)]
    /\ UNCHANGED <<exiting, file, saving, session, ends, failed>>

\* A new player in the place of one that cannot be loaded.
MutLoaded(a) == IF cache[a] # None THEN cache[a] ELSE IF Whole(a) THEN file[a] ELSE 0
\* loadObject("players", uuid): the cached object, or the file again.
Loaded(a) == IF cache[a] # None THEN cache[a] ELSE FromFile(a)

\* login: Player.load returns null for an account that cannot be loaded, and
\* login throws on it.
Login(a) ==
    /\ Script /\ session[a] = None
    /\ cache' = [cache EXCEPT ![a] = Loaded(a)]
    /\ session' = [session EXCEPT ![a] = Loaded(a)]
    /\ UNCHANGED <<up, exiting, file, saving, byPath, last, ends, failed>>

\* The end of saveObject: the object is cached, whatever saveFile returned.
EndSave(a) ==
    /\ saving' = None
    /\ cache' = [cache EXCEPT ![a] = last'[a]]

\* saveFile may fail to open the file, which then keeps what it has, or empties
\* it first.
SaveFile(a) ==
    \/ failed' = TRUE /\ EndSave(a) /\ UNCHANGED file
    \/ /\ file' = [file EXCEPT ![a] = Torn]
       /\ saving' = a /\ UNCHANGED <<cache, failed>>

\* A command changes the player and saves him.
Save(a) ==
    /\ Script /\ session[a] # None /\ session[a] < MaxVersion
    /\ session' = [session EXCEPT ![a] = @ + 1]
    /\ last' = [last EXCEPT ![a] = session[a] + 1]
    /\ SaveFile(a)
    /\ UNCHANGED <<up, exiting, byPath, ends>>

\* quit saves him as he is and removes him, in one script: nobody sees the
\* session between the save and its end, so it ends here.
Quit(a) ==
    /\ Script /\ session[a] # None
    /\ session' = [session EXCEPT ![a] = None]
    /\ last' = [last EXCEPT ![a] = session[a]]
    /\ SaveFile(a)
    /\ UNCHANGED <<up, exiting, byPath, ends>>

\* The object that was cached before is written.
MutWrite(a) ==
    /\ up /\ saving = a
    /\ \/ file' = [file EXCEPT ![a] = cache[a]] /\ UNCHANGED failed
       \/ failed' = TRUE /\ UNCHANGED file
    /\ UNCHANGED last /\ EndSave(a)
    /\ UNCHANGED <<up, exiting, session, byPath, ends>>

\* WriteFile writes all of the data, or a part of it and an error.
Write(a) ==
    /\ up /\ saving = a
    /\ \/ file' = [file EXCEPT ![a] = last[a]] /\ UNCHANGED failed
       \/ failed' = TRUE /\ UNCHANGED file
    /\ UNCHANGED last /\ EndSave(a)
    /\ UNCHANGED <<up, exiting, session, byPath, ends>>

\* A connection that fails: the player is removed and not saved.
Leave(a) ==
    /\ Script /\ session[a] # None
    /\ session' = [session EXCEPT ![a] = None]
    /\ UNCHANGED <<up, exiting, file, saving, cache, byPath, last, ends, failed>>

\* A reload that always reads the files.
MutReloadJSON ==
    /\ Script
    /\ cache' = [a \in Accounts |-> FromFile(a)]
    /\ byPath' = {a \in Accounts : Whole(a)}
    /\ UNCHANGED <<up, exiting, file, saving, session, last, ends, failed>>

\* reloadJSON runs preloadCache again: what is cached under its path is cloned,
\* and any other file is read, over what its uuid may have in the cache.
ReloadJSON ==
    /\ Script
    /\ cache' = [a \in Accounts |-> IF a \in byPath THEN cache[a] ELSE FromFile(a)]
    /\ byPath' = byPath \union {a \in Accounts : Whole(a)}
    /\ last' = [a \in Accounts |-> IF a \in byPath THEN last[a] ELSE FromFile(a)]
    /\ UNCHANGED <<up, exiting, file, saving, session, ends, failed>>

-----------------------------------------------------------------------------
\* The process ends: memory is gone, files are as they are.
End ==
    /\ up /\ ends < MaxEnds
    /\ up' = FALSE /\ exiting' = FALSE /\ ends' = ends + 1
    /\ saving' = None /\ session' = Nobody /\ cache' = Nobody /\ byPath' = {}
    /\ last' = Nobody
    /\ UNCHANGED <<file, failed>>

\* shutdown closes the channel, and panics when it is closed already.
Shutdown ==
    /\ Script /\ \E a \in Accounts : session[a] # None
    /\ IF exiting THEN End
       ELSE /\ exiting' = TRUE
            /\ UNCHANGED <<up, file, saving, session, cache, byPath, last, ends, failed>>

\* main receives from the channel and calls os.Exit, whatever runs; or a signal
\* or a crash ends the process.
Exit == exiting /\ End
Kill == ~exiting /\ End

Next == \/ \E a \in Accounts : Login(a) \/ Save(a) \/ Quit(a) \/ Write(a) \/ Leave(a)
        \/ Boot \/ ReloadJSON \/ Shutdown \/ Exit \/ Kill

Spec == Init /\ [][Next]_vars

-----------------------------------------------------------------------------
TornFiles == {a \in Accounts : ~Whole(a)}

\* While the process runs, nothing that a player was told is saved is lost, even
\* if every write fails and the files are reloaded: the next login finds it.
\* It hangs on the entry by path, which keeps a reload from the broken file.
SavedIsLoadable ==
    up /\ saving = None => \A a \in Accounts : last[a] # None =>
                /\ Loaded(a) = last[a]
                /\ session[a] # None => session[a] = last[a]

\* Until a write has failed, a file in use is whole and up to date between saves,
\* whatever was interrupted and reloaded before.
FilesCurrent ==
    up /\ saving = None /\ ~failed =>
        \A a \in Accounts : last[a] # None => file[a] = last[a]

\* Until a write has failed, the end of a process costs one file at the most.
OneFileAnEnd ==
    ~failed => Cardinality(TornFiles) <= ends + (IF saving = None THEN 0 ELSE 1)

\* A file that was torn when the process came up keeps its account out for good,
\* and nothing in the game can repair it.
OutForGood == \A a \in Accounts :
    [](up /\ saving = None /\ last[a] = None => [](session[a] = None /\ ~Whole(a)))
=============================================================================
