-------------------------- MODULE PlayerFilesProofs --------------------------
(***************************************************************************)
(* What saving promises, for any accounts and any bounds.                   *)
(*                                                                          *)
(* The argument: the cache agrees with the last save except during a save,  *)
(* and a reload reads only files that could not be read at the boot         *)
(* (CacheAgrees, PathAgrees); until a write has failed, a file that is not  *)
(* being saved agrees with the last save as well (FilesAgree).              *)
(***************************************************************************)
EXTENDS PlayerFiles, FiniteSetTheorems, TLAPS

Down == ~up => /\ exiting = FALSE /\ saving = None /\ byPath = {}
               /\ session = Nobody /\ cache = Nobody /\ last = Nobody
SessionAgrees == \A a \in Accounts : session[a] # None => session[a] = last[a]
CacheAgrees == \A a \in Accounts : saving # a => cache[a] = last[a]
PathAgrees == up => \A a \in Accounts : a \in byPath <=> last[a] # None
OutMeansTorn == up => \A a \in Accounts : last[a] = None => ~Whole(a)
SavingTorn == saving # None => last[saving] # None /\ ~Whole(saving)

SaveInv == /\ TypeOK /\ Down /\ SessionAgrees /\ CacheAgrees /\ PathAgrees
           /\ OutMeansTorn /\ SavingTorn

LEMMA NobodyType == Nobody \in [Accounts -> Version \union {None}]
  BY DEF Nobody

LEMMA InitInv == Init => SaveInv
  <1> SUFFICES ASSUME Init PROVE SaveInv  OBVIOUS
  <1> USE ConstantsOK DEF ConstantsOK, Init
  <1>1. file \in [Accounts -> Version \union {Torn}]  BY DEF Version
  <1>2. TypeOK
    <2>1. /\ session \in [Accounts -> Version \union {None}]
          /\ cache \in [Accounts -> Version \union {None}]
          /\ last \in [Accounts -> Version \union {None}]
      BY NobodyType
    <2>2. ends \in 0 .. MaxEnds
      OBVIOUS
    <2>4. up \in BOOLEAN /\ exiting \in BOOLEAN /\ failed \in BOOLEAN
      BY Zenon
    <2>3. saving \in Accounts \union {None} /\ byPath \subseteq Accounts
      OBVIOUS
    <2> HIDE DEF Init
    <2> QED  BY <1>1, <2>1, <2>2, <2>3, <2>4 DEF TypeOK
  <1> QED
    BY <1>2 DEF Nobody, SaveInv, Down, SessionAgrees, CacheAgrees, PathAgrees, OutMeansTorn,
                SavingTorn

LEMMA BootInv == ASSUME SaveInv, Boot PROVE SaveInv'
  <1> USE ConstantsOK DEF ConstantsOK, SaveInv, Boot, Down, Nobody, FromFile
  <1>0. \A a \in Accounts : Whole(a) => file[a] \in Version /\ file[a] # None
    BY DEF TypeOK, Whole, Version
  <1>1. TypeOK'  BY <1>0 DEF TypeOK
  <1>2. Down' /\ SessionAgrees' /\ CacheAgrees' /\ SavingTorn'
    BY DEF SessionAgrees, CacheAgrees, SavingTorn
  <1>3. PathAgrees' /\ OutMeansTorn'  BY <1>0 DEF PathAgrees, OutMeansTorn, Whole
  <1> QED  BY <1>1, <1>2, <1>3

LEMMA LoginInv == ASSUME SaveInv, NEW a \in Accounts, Login(a) PROVE SaveInv'
  <1> USE ConstantsOK DEF ConstantsOK, SaveInv, Login, Script
  <1>1. Loaded(a) = last[a] /\ cache[a] = last[a]
    BY DEF Loaded, FromFile, CacheAgrees, OutMeansTorn
  <1>2. last[a] \in Version \union {None}  BY DEF TypeOK
  <1>3. TypeOK'  BY <1>1, <1>2 DEF TypeOK
  <1>4. Down' /\ SavingTorn'  BY DEF Down, SavingTorn
  <1>5. SessionAgrees' /\ CacheAgrees'  BY <1>1 DEF SessionAgrees, CacheAgrees, TypeOK
  <1>6. PathAgrees' /\ OutMeansTorn'  BY DEF PathAgrees, OutMeansTorn, Whole
  <1> QED  BY <1>3, <1>4, <1>5, <1>6

LEMMA SaveStepInv == ASSUME SaveInv, NEW a \in Accounts, Save(a) PROVE SaveInv'
  <1> USE ConstantsOK DEF ConstantsOK, SaveInv, Save, SaveFile, Script, EndSave
  <1>1. session[a] \in Version /\ session[a] + 1 \in Version /\ session[a] + 1 # None
    BY DEF TypeOK, Version
  <1>2. last[a] # None  BY DEF SessionAgrees
  <1>3. TypeOK'
    <2>1. failed' \in BOOLEAN  BY Zenon DEF TypeOK
    <2>2. saving' \in Accounts \union {None}  BY DEF TypeOK
    <2>3. file' \in [Accounts -> Version \union {Torn}]
          /\ cache' \in [Accounts -> Version \union {None}]
      BY <1>1 DEF TypeOK
    <2> QED  BY <1>1, <2>1, <2>2, <2>3 DEF TypeOK
  <1>4. Down'  BY DEF Down
  <1>5. SessionAgrees'  BY <1>1 DEF SessionAgrees, TypeOK
  <1>6. CacheAgrees'  BY <1>1 DEF CacheAgrees, TypeOK
  <1>7. PathAgrees' /\ OutMeansTorn'
    BY <1>1, <1>2 DEF PathAgrees, OutMeansTorn, Whole, TypeOK
  <1>8. SavingTorn'  BY <1>1 DEF SavingTorn, Whole, TypeOK
  <1> QED  BY <1>3, <1>4, <1>5, <1>6, <1>7, <1>8

LEMMA QuitInv == ASSUME SaveInv, NEW a \in Accounts, Quit(a) PROVE SaveInv'
  <1> USE ConstantsOK DEF ConstantsOK, SaveInv, Quit, SaveFile, Script, EndSave
  <1>1. session[a] \in Version /\ last[a] = session[a] /\ last' = last
    BY DEF TypeOK, SessionAgrees
  <1>2. CacheAgrees' /\ SessionAgrees'  BY <1>1 DEF CacheAgrees, SessionAgrees, TypeOK
  <1>3. TypeOK'
    <2>1. failed' \in BOOLEAN  BY Zenon DEF TypeOK
    <2>2. saving' \in Accounts \union {None}  BY DEF TypeOK
    <2>3. file' \in [Accounts -> Version \union {Torn}]
          /\ cache' \in [Accounts -> Version \union {None}]
      BY <1>1 DEF TypeOK
    <2> QED  BY <1>1, <2>1, <2>2, <2>3 DEF TypeOK
  <1>4. Down'  BY DEF Down
  <1>5. PathAgrees' /\ OutMeansTorn' /\ SavingTorn'
    BY <1>1 DEF PathAgrees, OutMeansTorn, SavingTorn, Whole, TypeOK
  <1> QED  BY <1>2, <1>3, <1>4, <1>5

LEMMA WriteInv == ASSUME SaveInv, NEW a \in Accounts, Write(a) PROVE SaveInv'
  <1> USE ConstantsOK DEF ConstantsOK, SaveInv, Write, EndSave
  <1>1. last[a] # None /\ last[a] \in Version
    BY DEF SavingTorn, TypeOK
  <1>2. TypeOK'  BY <1>1 DEF TypeOK
  <1>3. Down' /\ SessionAgrees' /\ SavingTorn'  BY DEF Down, SessionAgrees, SavingTorn
  <1>4. CacheAgrees'  BY DEF CacheAgrees, TypeOK
  <1>5. PathAgrees' /\ OutMeansTorn'
    BY <1>1 DEF PathAgrees, OutMeansTorn, Whole, TypeOK
  <1> QED  BY <1>2, <1>3, <1>4, <1>5

LEMMA LeaveInv == ASSUME SaveInv, NEW a \in Accounts, Leave(a) PROVE SaveInv'
  <1> USE ConstantsOK DEF ConstantsOK, SaveInv, Leave, Script
  <1>1. TypeOK'  BY DEF TypeOK
  <1> QED
    BY <1>1 DEF Down, SessionAgrees, CacheAgrees, PathAgrees, OutMeansTorn, SavingTorn,
                Whole, TypeOK

LEMMA ReloadInv == ASSUME SaveInv, ReloadJSON PROVE SaveInv'
  <1> USE ConstantsOK DEF ConstantsOK, SaveInv, ReloadJSON, Script
  <1>1. \A a \in Accounts : a \notin byPath =>
            FromFile(a) = None /\ last[a] = None /\ ~Whole(a)
    BY DEF PathAgrees, OutMeansTorn, FromFile
  <1>2. byPath' = byPath  BY <1>1 DEF TypeOK
  <1>3. cache' = cache /\ last' = last  BY <1>1 DEF TypeOK, CacheAgrees
  <1> QED
    BY <1>2, <1>3 DEF TypeOK, Down, SessionAgrees, CacheAgrees, PathAgrees, OutMeansTorn,
                      SavingTorn, Whole

LEMMA EndInv == ASSUME SaveInv, End PROVE SaveInv'
  <1> USE ConstantsOK DEF ConstantsOK, SaveInv, End
  <1>1. TypeOK'
    <2>1. /\ session' \in [Accounts -> Version \union {None}]
          /\ cache' \in [Accounts -> Version \union {None}]
          /\ last' \in [Accounts -> Version \union {None}]
      BY NobodyType
    <2>2. ends' \in 0 .. MaxEnds
      BY DEF TypeOK
    <2>5. up' \in BOOLEAN /\ exiting' \in BOOLEAN /\ failed' \in BOOLEAN
      BY Zenon DEF TypeOK
    <2>3. saving' \in Accounts \union {None} /\ byPath' \subseteq Accounts
      OBVIOUS
    <2>4. file' \in [Accounts -> Version \union {Torn}]
      BY DEF TypeOK
    <2> HIDE DEF End
    <2> QED  BY <2>1, <2>2, <2>3, <2>4, <2>5 DEF TypeOK
  <1> QED
    BY <1>1 DEF Nobody, Down, SessionAgrees, CacheAgrees, PathAgrees, OutMeansTorn, SavingTorn

LEMMA ShutdownInv == ASSUME SaveInv, Shutdown PROVE SaveInv'
  <1>1. CASE exiting  BY <1>1, EndInv DEF Shutdown
  <1>2. CASE ~exiting
    BY <1>2 DEF Shutdown, Script, SaveInv, TypeOK, Down, SessionAgrees, CacheAgrees,
                PathAgrees, OutMeansTorn, SavingTorn, Whole
  <1> QED  BY <1>1, <1>2

LEMMA StepInv == ASSUME SaveInv, [Next]_vars PROVE SaveInv'
  <1>1. CASE UNCHANGED vars
    BY <1>1 DEF vars, memory, SaveInv, TypeOK, Down, SessionAgrees, CacheAgrees, PathAgrees,
                OutMeansTorn, SavingTorn, Whole
  <1>2. CASE Exit \/ Kill  BY <1>2, EndInv DEF Exit, Kill
  <1> QED
    BY <1>1, <1>2, BootInv, LoginInv, SaveStepInv, QuitInv, WriteInv, LeaveInv, ReloadInv,
       ShutdownInv
    DEF Next

LEMMA InvLoadable == ASSUME SaveInv PROVE SavedIsLoadable
  BY ConstantsOK
  DEF ConstantsOK, SaveInv, SavedIsLoadable, SessionAgrees, CacheAgrees, Loaded, TypeOK

-----------------------------------------------------------------------------
\* What the process remembers keeps its type: a torn file never gets into it.
THEOREM FileTypes == Spec => []TypeOK
  <1>1. SaveInv => TypeOK  BY DEF SaveInv
  <1> QED  BY <1>1, InitInv, StepInv, PTL DEF Spec

\* What was saved can be loaded until the process ends, whatever writes fail.
THEOREM SavedStays == Spec => []SavedIsLoadable
  <1> QED  BY InvLoadable, InitInv, StepInv, PTL DEF Spec

-----------------------------------------------------------------------------
(* Until a write has failed.                                                *)

FilesAgree == ~failed => \A a \in Accounts :
                    last[a] # None /\ saving # a => file[a] = last[a]
FileInv == SaveInv /\ FilesAgree

LEMMA FileInitInv == Init => FileInv
  BY InitInv DEF FileInv, FilesAgree, Init, Nobody

LEMMA FileStepInv == ASSUME FileInv, [Next]_vars PROVE FileInv'
  <1> USE ConstantsOK DEF ConstantsOK, FileInv
  <1>0. SaveInv'  BY StepInv
  <1> SUFFICES ASSUME ~failed', NEW b \in Accounts,
                      last'[b] # None, saving' # b
               PROVE  file'[b] = last'[b]
    BY <1>0 DEF FilesAgree
  <1>1. CASE Boot  BY <1>1 DEF Boot, FromFile
  <1>2. ASSUME NEW a \in Accounts, Login(a) \/ Leave(a) PROVE file'[b] = last'[b]
    BY <1>2 DEF Login, Leave, FilesAgree
  <1>3. ASSUME NEW a \in Accounts, Save(a) \/ Quit(a) PROVE file'[b] = last'[b]
    BY <1>3 DEF Save, Quit, SaveFile, Script, FilesAgree, SaveInv, TypeOK
  <1>4. ASSUME NEW a \in Accounts, Write(a) PROVE file'[b] = last'[b]
    BY <1>4 DEF Write, EndSave, FilesAgree, SaveInv, TypeOK
  <1>5. CASE ReloadJSON
    BY <1>5 DEF ReloadJSON, Script, FromFile, FilesAgree
  <1>6. ASSUME End PROVE FALSE  BY <1>6 DEF End, Nobody
  <1>7. CASE Shutdown \/ Exit \/ Kill
    BY <1>6, <1>7 DEF Shutdown, Exit, Kill, FilesAgree
  <1>8. CASE UNCHANGED vars  BY <1>8 DEF vars, memory, FilesAgree
  <1> QED  BY <1>1, <1>2, <1>3, <1>4, <1>5, <1>7, <1>8 DEF Next

\* Between saves the files of all accounts in use are current.
THEOREM FilesAreCurrent == Spec => []FilesCurrent
  <1>1. FileInv => FilesCurrent
    BY ConstantsOK DEF ConstantsOK, FileInv, FilesAgree, FilesCurrent
  <1> QED  BY <1>1, FileInitInv, FileStepInv, PTL DEF Spec

-----------------------------------------------------------------------------
(* One file for an end.                                                     *)

LEMMA CountStep ==
    ASSUME FileInv, OneFileAnEnd, [Next]_vars PROVE OneFileAnEnd'
  <1> SUFFICES ASSUME ~failed'
               PROVE  Cardinality(TornFiles') <=
                        ends' + (IF saving' = None THEN 0 ELSE 1)
    BY DEF OneFileAnEnd
  <1>0. ~failed
    BY Zenon DEF Next, Login, Save, Quit, SaveFile, Write, Leave, Boot, ReloadJSON, Shutdown, Exit, Kill, End,
                 vars
  <1> USE ConstantsOK DEF ConstantsOK
  <1>1. IsFiniteSet(TornFiles) /\ Cardinality(TornFiles) \in Nat
    BY FS_Subset, FS_CardinalityType DEF TornFiles
  <1>2. Cardinality(TornFiles) <= ends + (IF saving = None THEN 0 ELSE 1)
    BY <1>0 DEF OneFileAnEnd
  <1>3. ends \in Nat /\ TypeOK  BY DEF FileInv, SaveInv, TypeOK
  <1>4. ASSUME UNCHANGED <<file, saving, ends>>
        PROVE  Cardinality(TornFiles') <= ends' + (IF saving' = None THEN 0 ELSE 1)
    BY <1>2, <1>4 DEF TornFiles, Whole
  <1>5. ASSUME NEW a \in Accounts, Save(a) \/ Quit(a)
        PROVE  Cardinality(TornFiles') <= ends' + (IF saving' = None THEN 0 ELSE 1)
    <2>1. TornFiles' = TornFiles \union {a}
      BY <1>0, <1>3, <1>5 DEF Save, Quit, SaveFile, TornFiles, Whole, TypeOK
    <2>2. Cardinality(TornFiles') <= Cardinality(TornFiles) + 1
      <3>1. Cardinality(TornFiles \union {a}) =
              IF a \in TornFiles THEN Cardinality(TornFiles) ELSE Cardinality(TornFiles) + 1
        BY <1>1, FS_AddElement
      <3> QED  BY <1>1, <2>1, <3>1
    <2>3. saving = None /\ saving' = a /\ a # None /\ ends' = ends
      BY <1>5 DEF Save, Quit, SaveFile, Script
    <2>4. Cardinality(TornFiles') \in Nat
      BY FS_Subset, FS_CardinalityType DEF TornFiles
    <2> QED  BY <1>1, <1>2, <1>3, <2>2, <2>3, <2>4
  <1>6. ASSUME NEW a \in Accounts, Write(a)
        PROVE  Cardinality(TornFiles') <= ends' + (IF saving' = None THEN 0 ELSE 1)
    <2>1. last[a] # None /\ last[a] \in Version /\ a \in TornFiles
      BY <1>6 DEF Write, FileInv, SaveInv, SavingTorn, SessionAgrees, TypeOK, TornFiles
    <2>2. TornFiles' = TornFiles \ {a}
      BY <1>3, <1>6, <2>1 DEF Write, TornFiles, Whole, TypeOK, Version
    <2>3. Cardinality(TornFiles') = Cardinality(TornFiles) - 1
      BY <1>1, <2>1, <2>2, FS_RemoveElement
    <2>4. saving' = None /\ saving # None /\ ends' = ends
      BY <1>6 DEF Write, EndSave
    <2> QED  BY <1>1, <1>2, <1>3, <2>3, <2>4
  <1>7. ASSUME End
        PROVE  Cardinality(TornFiles') <= ends' + (IF saving' = None THEN 0 ELSE 1)
    <2>1. TornFiles' = TornFiles /\ saving' = None /\ ends' = ends + 1
      BY <1>7 DEF End, TornFiles, Whole
    <2> QED  BY <1>1, <1>2, <1>3, <2>1
  <1>8. ASSUME Boot \/ ReloadJSON \/ (\E a \in Accounts : Login(a) \/ Leave(a))
                \/ (Shutdown /\ ~exiting) \/ UNCHANGED vars
        PROVE  UNCHANGED <<file, saving, ends>>
    BY <1>8 DEF Boot, ReloadJSON, Login, Leave, Shutdown, vars, memory
  <1>9. ASSUME (Shutdown /\ exiting) \/ Exit \/ Kill PROVE End
    BY <1>9 DEF Shutdown, Exit, Kill
  <1> QED  BY <1>4, <1>5, <1>6, <1>7, <1>8, <1>9 DEF Next

\* Every end of the process costs one file at the most.
THEOREM OneFileForAnEnd == Spec => []OneFileAnEnd
  <1>1. Init => OneFileAnEnd
    <2> SUFFICES ASSUME Init PROVE OneFileAnEnd  OBVIOUS
    <2>1. TornFiles = {}  BY ConstantsOK DEF ConstantsOK, Init, TornFiles, Whole
    <2> QED  BY <2>1, FS_EmptySet DEF OneFileAnEnd, Init
  <1> QED  BY <1>1, CountStep, FileInitInv, FileStepInv, PTL DEF Spec

-----------------------------------------------------------------------------
(* A torn file is torn for good.                                            *)

Out(a) == session[a] = None /\ cache[a] = None /\ last[a] = None /\ ~Whole(a)
            /\ saving # a /\ a \notin byPath

LEMMA OutStep ==
    ASSUME SaveInv, NEW a \in Accounts, Out(a), [Next]_vars PROVE Out(a)'
  <1> USE ConstantsOK DEF ConstantsOK, Out, SaveInv, Whole
  <1>1. ASSUME NEW b \in Accounts, Login(b) \/ Save(b) \/ Quit(b) \/ Write(b) \/ Leave(b)
        PROVE  Out(a)'
    BY <1>1 DEF Login, Save, Quit, SaveFile, Write, Leave, EndSave, Loaded, FromFile, Script, TypeOK
  <1>2. CASE Boot \/ ReloadJSON  BY <1>2 DEF Boot, ReloadJSON, FromFile, TypeOK
  <1>3. CASE Shutdown \/ Exit \/ Kill
    BY <1>3 DEF Shutdown, Exit, Kill, End, Nobody
  <1>4. CASE UNCHANGED vars  BY <1>4 DEF vars, memory
  <1> QED  BY <1>1, <1>2, <1>3, <1>4 DEF Next

\* Nothing in the game repairs a file that is torn when the process comes up.
THEOREM TornIsOut == Spec => OutForGood
  <1>1. ASSUME NEW a \in Accounts
        PROVE  Spec => [](up /\ saving = None /\ last[a] = None
                            => [](session[a] = None /\ ~Whole(a)))
    <2>1. SaveInv /\ up /\ saving = None /\ last[a] = None => Out(a)
      BY ConstantsOK DEF ConstantsOK, SaveInv, SessionAgrees, CacheAgrees, PathAgrees, OutMeansTorn, Out
    <2>2. Out(a) => session[a] = None /\ ~Whole(a)  BY DEF Out
    <2>3. SaveInv /\ Out(a) /\ [Next]_vars => Out(a)'  BY OutStep
    <2> QED  BY <2>1, <2>2, <2>3, InitInv, StepInv, PTL DEF Spec
  <1> QED  BY <1>1 DEF OutForGood
=============================================================================
