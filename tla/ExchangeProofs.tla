---------------------------- MODULE ExchangeProofs ----------------------------
(***************************************************************************)
(* Theorems about Exchange for every set of CRSs, paths, contents and      *)
(* consumers and every bound: its types, what its files hold, and that it  *)
(* implements ArtifactBoard.                                               *)
(***************************************************************************)
EXTENDS Exchange, TLAPS

\* A visible file of a SUBMIT_DIR is whole and was submitted.
SubmitInv == \A c \in CRSs, p \in Paths :
  /\ submit[c][p] = Torn => p \in Hidden
  /\ submit[c][p] \in Contents /\ p \in Visible => <<p, submit[c][p]>> \in posted

\* The file being copied belongs to an allowed directory, its name is still
\* free, and what was read of a visible file was submitted.
CopyInv ==
  /\ entries \subseteq {p \in Paths : DirOf[p] \in AllowedDirs}
  /\ pc \in {"entry", "copied", "renamed"} => source \in CRSs
  /\ pc \in {"copied", "renamed"} => cur \in Paths
  /\ pc = "copied" =>
       /\ temps >= 1
       /\ exchange[cur] = None
       /\ buf # None
       /\ cur \notin Hidden => cur \in Visible /\ buf \in Contents /\ <<cur, buf>> \in posted

\* Only a hidden file of EXCHANGE_DIR may be half-written.
ExchangeInv == \A p \in Paths : exchange[p] = Torn => p \in Hidden

\* A consumer lists and holds published visible files only.
FetchInv == \A k \in Consumers :
  /\ \A p \in flist[k] : /\ p \in Visible
                         /\ exchange[p] # None
                         /\ fetched[k][p] = None
  /\ \A p \in Paths : fetched[k][p] # None =>
       /\ p \in Visible
       /\ fetched[k][p] = exchange[p]

IInv == TypeOK /\ SubmitInv /\ CopyInv /\ ExchangeInv /\ FetchInv /\ TempsAccounted

-----------------------------------------------------------------------------
\* The initial state satisfies the invariant.
LEMMA InitIInv == Init => IInv
<1> SUFFICES ASSUME Init PROVE IInv
  OBVIOUS
<1> USE ExchangeAssumption DEF Init
<1>1. CrsType /\ SubmitInv
  BY DEF CrsType, SubmitInv
<1>2. DirType /\ ExchangeInv
  BY DEF DirType, ExchangeInv
<1>3. PassType
  <2>1. todo \in SUBSET (CRSs \X AllowedDirs)
    OBVIOUS
  <2> QED BY <2>1 DEF PassType
<1>4. LoopType
  BY DEF LoopType
<1>5. FaultType /\ TempsAccounted
  BY DEF FaultType, TempsAccounted
<1>6. CopyInv
  BY DEF CopyInv
<1>7. FetchType
  BY DEF FetchType
<1>8. FetchInv
  BY DEF FetchInv
<1> QED
  BY <1>1, <1>2, <1>3, <1>4, <1>5, <1>6, <1>7, <1>8 DEF IInv, TypeOK

-----------------------------------------------------------------------------
(* What a step leaves alone keeps its part of the invariant.                *)

\* No step but a CRS's touches a SUBMIT_DIR.
LEMMA KeepCrs ==
  ASSUME CrsType, SubmitInv, UNCHANGED crsVars
  PROVE  CrsType' /\ SubmitInv'
  BY DEF CrsType, SubmitInv, crsVars

\* A step that renames nothing into EXCHANGE_DIR and makes no temporary file.
LEMMA KeepDir ==
  ASSUME DirType, ExchangeInv, UNCHANGED dirVars
  PROVE  DirType' /\ ExchangeInv'
  BY DEF DirType, ExchangeInv, dirVars

\* A step that is not a signal and begins no pass.
LEMMA KeepLoop ==
  ASSUME LoopType, UNCHANGED loopVars
  PROVE  LoopType'
  BY DEF LoopType, loopVars

\* A step that neither fails nor restarts.
LEMMA KeepFaults ==
  ASSUME FaultType, UNCHANGED faultVars
  PROVE  FaultType'
  BY DEF FaultType, faultVars

\* A step of someone else that publishes nothing keeps a consumer's state.
LEMMA KeepFetch ==
  ASSUME FetchType, FetchInv, UNCHANGED <<exchange, fetchVars>>
  PROVE  FetchType' /\ FetchInv'
  BY DEF FetchType, FetchInv, fetchVars

\* A step outside the sidecar that submits nothing less keeps its pass.
LEMMA KeepPass ==
  ASSUME PassType, CopyInv, TempsAccounted,
         UNCHANGED <<dirVars, pc, passVars, copyVars, restarts>>,
         posted \subseteq posted'
  PROVE  PassType' /\ CopyInv' /\ TempsAccounted'
  BY DEF PassType, CopyInv, TempsAccounted, dirVars, passVars, copyVars

-----------------------------------------------------------------------------
(* One lemma per action: it preserves the invariant.                        *)

LEMMA CrsStepIInv == ASSUME IInv, NEW c \in CRSs, CrsStep(c) PROVE IInv'
<1> USE ExchangeAssumption
<1>1. posted \subseteq posted'
  BY DEF CrsStep, SubmitFile, WriteTemporary, PlaceLink
<1>2. PICK p \in Paths : \/ \E v \in Contents : SubmitFile(c, p, v)
                         \/ WriteTemporary(c, p)
                         \/ PlaceLink(c, p)
  BY DEF CrsStep
<1>3. writes' \in 0 .. MaxWrites
  BY DEF CrsStep, IInv, TypeOK, CrsType
<1>4. CrsType' /\ SubmitInv'
  <2>1. CASE \E v \in Contents : SubmitFile(c, p, v)
    BY <1>3, <2>1 DEF SubmitFile, IInv, TypeOK, CrsType, SubmitInv, Visible
  <2>2. CASE WriteTemporary(c, p)
    BY <1>3, <2>2 DEF WriteTemporary, IInv, TypeOK, CrsType, SubmitInv, Visible
  <2>3. CASE PlaceLink(c, p)
    BY <1>3, <2>3 DEF PlaceLink, IInv, TypeOK, CrsType, SubmitInv, Visible
  <2> QED BY <1>2, <2>1, <2>2, <2>3
<1>5. UNCHANGED <<dirVars, pc, passVars, copyVars, loopVars, faultVars, fetchVars>>
  BY DEF CrsStep
<1>6. DirType' /\ ExchangeInv'
  BY <1>5, KeepDir DEF IInv, TypeOK
<1>7. LoopType' /\ FaultType'
  BY <1>5, KeepLoop, KeepFaults DEF IInv, TypeOK
<1>8. FetchType' /\ FetchInv'
  BY <1>5, KeepFetch DEF IInv, TypeOK, dirVars
<1>9. PassType' /\ CopyInv' /\ TempsAccounted'
  BY <1>1, <1>5, KeepPass DEF IInv, TypeOK, faultVars
<1> QED
  BY <1>4, <1>6, <1>7, <1>8, <1>9 DEF IInv, TypeOK
LEMMA BeginPassIInv == ASSUME IInv, BeginPass PROVE IInv'
<1> USE ExchangeAssumption DEF IInv, TypeOK
<1>1. CrsType' /\ SubmitInv'
  BY KeepCrs DEF BeginPass
<1>2. DirType' /\ ExchangeInv'
  BY KeepDir DEF BeginPass
<1>3. LoopType'
  BY DEF BeginPass, LoopType
<1>4. FaultType'
  BY KeepFaults DEF BeginPass
<1>5. FetchType' /\ FetchInv'
  BY KeepFetch DEF BeginPass, dirVars
<1>6. PassType'
  BY DEF BeginPass, PassType, passVars, copyVars, dirVars
<1>7. CopyInv' /\ TempsAccounted'
  <2>1. pc = "idle" /\ pc' = "scan" /\ UNCHANGED <<temps, entries, restarts>>
    BY DEF BeginPass, dirVars, faultVars
  <2> QED BY <2>1 DEF CopyInv, TempsAccounted, DirType
<1> QED
  BY <1>1, <1>2, <1>3, <1>4, <1>5, <1>6, <1>7

LEMMA ListDirIInv == ASSUME IInv, NEW c \in CRSs, NEW d \in AllowedDirs, ListDir(c, d) PROVE IInv'
<1> USE ExchangeAssumption DEF IInv, TypeOK
<1>1. CrsType' /\ SubmitInv'
  BY KeepCrs DEF ListDir
<1>2. DirType' /\ ExchangeInv'
  BY KeepDir DEF ListDir
<1>3. LoopType'
  BY KeepLoop DEF ListDir
<1>4. FaultType'
  BY KeepFaults DEF ListDir
<1>5. FetchType' /\ FetchInv'
  BY KeepFetch DEF ListDir, dirVars
<1>6. PassType'
  BY DEF ListDir, PassType, passVars, copyVars, dirVars
<1>7. CopyInv' /\ TempsAccounted'
  BY DEF ListDir, CopyInv, TempsAccounted, PassType, DirType, FaultType, crsVars, dirVars, passVars, copyVars, faultVars, loopVars
<1> QED
  BY <1>1, <1>2, <1>3, <1>4, <1>5, <1>6, <1>7

LEMMA ScanFailsIInv == ASSUME IInv, ScanFails PROVE IInv'
<1> USE ExchangeAssumption DEF IInv, TypeOK
<1>1. CrsType' /\ SubmitInv'
  BY KeepCrs DEF ScanFails
<1>2. DirType' /\ ExchangeInv'
  BY KeepDir DEF ScanFails
<1>3. LoopType'
  BY KeepLoop DEF ScanFails
<1>4. FaultType'
  BY DEF ScanFails, FaultType, faultVars
<1>5. FetchType' /\ FetchInv'
  BY KeepFetch DEF ScanFails, dirVars
<1>6. PassType'
  BY DEF ScanFails, PassType, passVars, copyVars, dirVars
<1>7. CopyInv' /\ TempsAccounted'
  BY DEF ScanFails, CopyInv, TempsAccounted, PassType, DirType, FaultType, crsVars, dirVars, passVars, copyVars, faultVars, loopVars
<1> QED
  BY <1>1, <1>2, <1>3, <1>4, <1>5, <1>6, <1>7

LEMMA SkipExistingIInv == ASSUME IInv, NEW p \in Paths, SkipExisting(p) PROVE IInv'
<1> USE ExchangeAssumption DEF IInv, TypeOK
<1>1. CrsType' /\ SubmitInv'
  BY KeepCrs DEF SkipExisting
<1>2. DirType' /\ ExchangeInv'
  BY KeepDir DEF SkipExisting
<1>3. LoopType'
  BY KeepLoop DEF SkipExisting
<1>4. FaultType'
  BY KeepFaults DEF SkipExisting
<1>5. FetchType' /\ FetchInv'
  BY KeepFetch DEF SkipExisting, dirVars
<1>6. PassType'
  BY DEF SkipExisting, PassType, passVars, copyVars, dirVars
<1>7. CopyInv' /\ TempsAccounted'
  BY DEF SkipExisting, CopyInv, TempsAccounted, PassType, DirType, FaultType, crsVars, dirVars, passVars, copyVars, faultVars, loopVars
<1> QED
  BY <1>1, <1>2, <1>3, <1>4, <1>5, <1>6, <1>7

LEMMA OpenFailsIInv == ASSUME IInv, NEW p \in Paths, OpenFails(p) PROVE IInv'
<1> USE ExchangeAssumption DEF IInv, TypeOK
<1>1. CrsType' /\ SubmitInv'
  BY KeepCrs DEF OpenFails
<1>2. DirType' /\ ExchangeInv'
  BY KeepDir DEF OpenFails
<1>3. LoopType'
  BY KeepLoop DEF OpenFails
<1>4. FaultType'
  BY KeepFaults DEF OpenFails
<1>5. FetchType' /\ FetchInv'
  BY KeepFetch DEF OpenFails, dirVars
<1>6. PassType'
  BY DEF OpenFails, PassType, passVars, copyVars, dirVars
<1>7. CopyInv' /\ TempsAccounted'
  BY DEF OpenFails, CopyInv, TempsAccounted, PassType, DirType, FaultType, crsVars, dirVars, passVars, copyVars, faultVars, loopVars
<1> QED
  BY <1>1, <1>2, <1>3, <1>4, <1>5, <1>6, <1>7

LEMMA EndDirIInv == ASSUME IInv, EndDir PROVE IInv'
<1> USE ExchangeAssumption DEF IInv, TypeOK
<1>1. CrsType' /\ SubmitInv'
  BY KeepCrs DEF EndDir
<1>2. DirType' /\ ExchangeInv'
  BY KeepDir DEF EndDir
<1>3. LoopType'
  BY KeepLoop DEF EndDir
<1>4. FaultType'
  BY KeepFaults DEF EndDir
<1>5. FetchType' /\ FetchInv'
  BY KeepFetch DEF EndDir, dirVars
<1>6. PassType'
  BY DEF EndDir, PassType, passVars, copyVars, dirVars
<1>7. CopyInv' /\ TempsAccounted'
  BY DEF EndDir, CopyInv, TempsAccounted, PassType, DirType, FaultType, crsVars, dirVars, passVars, copyVars, faultVars, loopVars
<1> QED
  BY <1>1, <1>2, <1>3, <1>4, <1>5, <1>6, <1>7

LEMMA EndPassIInv == ASSUME IInv, EndPass PROVE IInv'
<1> USE ExchangeAssumption DEF IInv, TypeOK
<1>1. CrsType' /\ SubmitInv'
  BY KeepCrs DEF EndPass
<1>2. DirType' /\ ExchangeInv'
  BY KeepDir DEF EndPass
<1>3. LoopType'
  BY KeepLoop DEF EndPass
<1>4. FaultType'
  BY KeepFaults DEF EndPass
<1>5. FetchType' /\ FetchInv'
  BY KeepFetch DEF EndPass, dirVars
<1>6. PassType'
  BY DEF EndPass, PassType, passVars, copyVars, dirVars
<1>7. CopyInv' /\ TempsAccounted'
  BY DEF EndPass, CopyInv, TempsAccounted, PassType, DirType, FaultType, crsVars, dirVars, passVars, copyVars, faultVars, loopVars
<1> QED
  BY <1>1, <1>2, <1>3, <1>4, <1>5, <1>6, <1>7

LEMMA SigtermIInv == ASSUME IInv, Sigterm PROVE IInv'
<1> USE ExchangeAssumption DEF IInv, TypeOK
<1>1. CrsType' /\ SubmitInv'
  BY KeepCrs DEF Sigterm
<1>2. DirType' /\ ExchangeInv'
  BY KeepDir DEF Sigterm
<1>3. LoopType'
  <2>1. stopping' \in BOOLEAN /\ last' \in BOOLEAN
    BY DEF Sigterm, LoopType
  <2>2. present' \in SUBSET (CRSs \X Visible)
    BY DEF Sigterm, Visible
  <2> QED BY <2>1, <2>2 DEF LoopType
<1>4. FaultType'
  BY KeepFaults DEF Sigterm
<1>5. FetchType' /\ FetchInv'
  BY KeepFetch DEF Sigterm, dirVars
<1>6. PassType'
  BY DEF Sigterm, PassType, passVars, copyVars, dirVars
<1>7. CopyInv' /\ TempsAccounted'
  BY DEF Sigterm, CopyInv, TempsAccounted, PassType, DirType, FaultType, crsVars, dirVars, passVars, copyVars, faultVars, loopVars
<1> QED
  BY <1>1, <1>2, <1>3, <1>4, <1>5, <1>6, <1>7

LEMMA CrashIInv == ASSUME IInv, Crash PROVE IInv'
<1> USE ExchangeAssumption DEF IInv, TypeOK
<1>1. CrsType' /\ SubmitInv'
  BY KeepCrs DEF Crash
<1>2. DirType' /\ ExchangeInv'
  BY KeepDir DEF Crash
<1>3. LoopType'
  BY KeepLoop DEF Crash
<1>4. FaultType'
  BY KeepFaults DEF Crash
<1>5. FetchType' /\ FetchInv'
  BY KeepFetch DEF Crash, dirVars
<1>6. PassType'
  BY DEF Crash, PassType, passVars, copyVars, dirVars
<1>7. CopyInv' /\ TempsAccounted'
  BY DEF Crash, CopyInv, TempsAccounted, PassType, DirType, FaultType, crsVars, dirVars, passVars, copyVars, faultVars, loopVars
<1> QED
  BY <1>1, <1>2, <1>3, <1>4, <1>5, <1>6, <1>7

LEMMA RestartIInv == ASSUME IInv, Restart PROVE IInv'
<1> USE ExchangeAssumption DEF IInv, TypeOK
<1>1. CrsType' /\ SubmitInv'
  BY KeepCrs DEF Restart
<1>2. DirType' /\ ExchangeInv'
  BY KeepDir DEF Restart
<1>3. LoopType'
  BY KeepLoop DEF Restart
<1>4. FaultType'
  BY DEF Restart, FaultType, faultVars
<1>5. FetchType' /\ FetchInv'
  BY KeepFetch DEF Restart, dirVars
<1>6. PassType'
  BY DEF Restart, PassType, passVars, copyVars, dirVars
<1>7. CopyInv' /\ TempsAccounted'
  BY DEF Restart, CopyInv, TempsAccounted, PassType, DirType, FaultType, crsVars, dirVars, passVars, copyVars, faultVars, loopVars
<1> QED
  BY <1>1, <1>2, <1>3, <1>4, <1>5, <1>6, <1>7

LEMMA OpenAndCopyIInv == ASSUME IInv, NEW p \in Paths, OpenAndCopy(p) PROVE IInv'
<1> USE ExchangeAssumption DEF IInv, TypeOK
<1>1. CrsType' /\ SubmitInv'
  BY KeepCrs DEF OpenAndCopy
<1>2. DirType' /\ ExchangeInv'
  BY DEF OpenAndCopy, DirType, ExchangeInv
<1>3. LoopType' /\ FaultType'
  BY KeepLoop, KeepFaults DEF OpenAndCopy
<1>4. FetchType' /\ FetchInv'
  BY KeepFetch DEF OpenAndCopy
<1>5. submit[source][p] \in Contents \union {Torn} /\ source \in CRSs
  <2>1. source \in CRSs
    BY DEF OpenAndCopy, CopyInv
  <2> QED BY <2>1 DEF OpenAndCopy
<1>6. PassType'
  BY <1>5 DEF OpenAndCopy, PassType, passVars
<1>7. CopyInv' /\ TempsAccounted'
  BY DEF OpenAndCopy, CopyInv, TempsAccounted, SubmitInv, Visible, PassType, DirType,
         FaultType, passVars, faultVars, crsVars
<1> QED
  BY <1>1, <1>2, <1>3, <1>4, <1>6, <1>7

LEMMA CopyFailsIInv == ASSUME IInv, CopyFails PROVE IInv'
<1> USE ExchangeAssumption DEF IInv, TypeOK
<1>1. CrsType' /\ SubmitInv'
  BY KeepCrs DEF CopyFails
<1>2. DirType' /\ ExchangeInv'
  BY DEF CopyFails, DirType, ExchangeInv, CopyInv
<1>3. LoopType' /\ FaultType'
  BY KeepLoop DEF CopyFails, FaultType
<1>4. FetchType' /\ FetchInv'
  BY KeepFetch DEF CopyFails
<1>5. PassType'
  BY DEF CopyFails, PassType, CopyInv
<1>6. CopyInv' /\ TempsAccounted'
  BY DEF CopyFails, CopyInv, TempsAccounted, PassType, DirType, FaultType
<1> QED
  BY <1>1, <1>2, <1>3, <1>4, <1>5, <1>6

LEMMA RenameIInv == ASSUME IInv, Rename PROVE IInv'
<1> USE ExchangeAssumption DEF IInv, TypeOK
<1>1. CrsType' /\ SubmitInv'
  BY KeepCrs DEF Rename
<1>2. cur \in Paths /\ exchange[cur] = None /\ buf # None
  BY DEF Rename, CopyInv
<1>3. DirType' /\ ExchangeInv'
  BY <1>2 DEF Rename, DirType, ExchangeInv, CopyInv, PassType
<1>4. LoopType' /\ FaultType'
  BY KeepLoop, KeepFaults DEF Rename
<1>5. FetchType' /\ FetchInv'
  <2>1. \A q \in Paths : q # cur => exchange'[q] = exchange[q]
    BY DEF Rename, DirType
  <2>2. exchange'[cur] # None
    BY <1>2 DEF Rename, DirType
  <2>3. \A k \in Consumers : fetched[k][cur] = None
    BY <1>2 DEF FetchInv
  <2> QED BY <2>1, <2>2, <2>3 DEF Rename, fetchVars, FetchType, FetchInv
<1>6. PassType'
  BY DEF Rename, PassType, passVars, copyVars
<1>7. CopyInv' /\ TempsAccounted'
  BY DEF Rename, CopyInv, TempsAccounted, PassType, DirType, FaultType, passVars,
         copyVars, faultVars
<1> QED
  BY <1>1, <1>3, <1>4, <1>5, <1>6, <1>7

LEMMA ChmodIInv == ASSUME IInv, Chmod PROVE IInv'
<1> USE ExchangeAssumption DEF IInv, TypeOK
<1>1. CrsType' /\ SubmitInv'
  BY KeepCrs DEF Chmod
<1>2. DirType' /\ ExchangeInv'
  BY DEF Chmod, DirType, ExchangeInv, CopyInv
<1>3. LoopType'
  BY KeepLoop DEF Chmod
<1>4. FaultType'
  BY DEF Chmod, FaultType
<1>5. FetchType' /\ FetchInv'
  BY KeepFetch DEF Chmod
<1>6. PassType'
  BY DEF Chmod, PassType
<1>7. CopyInv' /\ TempsAccounted'
  BY DEF Chmod, CopyInv, TempsAccounted, PassType, DirType, FaultType
<1> QED
  BY <1>1, <1>2, <1>3, <1>4, <1>5, <1>6, <1>7

\* A fetch daemon touches its own state only.
LEMMA FetchIInv == ASSUME IInv, NEW k \in Consumers, Fetch(k) PROVE IInv'
<1> USE ExchangeAssumption DEF IInv, TypeOK
<1>1. UNCHANGED <<crsVars, dirVars, pc, passVars, copyVars, loopVars, faultVars>>
  BY DEF Fetch
<1>2. CrsType' /\ SubmitInv' /\ DirType' /\ ExchangeInv' /\ LoopType' /\ FaultType'
  BY <1>1, KeepCrs, KeepDir, KeepLoop, KeepFaults
<1>3. PassType' /\ CopyInv' /\ TempsAccounted'
  BY <1>1, KeepPass DEF crsVars, faultVars
<1>4. exchange' = exchange
  BY <1>1 DEF dirVars
<1>5. CASE FetchList(k)
  <2>1. FetchType'
    BY <1>5 DEF FetchList, FetchType
  <2>2. FetchInv'
    BY <1>4, <1>5 DEF FetchList, FetchType, FetchInv, Visible
  <2> QED BY <1>2, <1>3, <2>1, <2>2
<1>6. CASE \E p \in Paths : FetchCopy(k, p)
  <2>1. PICK p \in Paths : FetchCopy(k, p)
    BY <1>6
  <2>2. FetchType'
    <3>1. fetched' \in [Consumers -> [Paths -> Contents \union {None, Torn}]]
      <4>1. fetched \in [Consumers -> [Paths -> Contents \union {None, Torn}]]
        BY DEF FetchType
      <4>2. exchange[p] \in Contents \union {None, Torn}
        BY DEF DirType
      <4>3. [fetched EXCEPT ![k][p] = exchange[p]]
              \in [Consumers -> [Paths -> Contents \union {None, Torn}]]
        BY <4>1, <4>2
      <4>4. fetched' = fetched \/ fetched' = [fetched EXCEPT ![k][p] = exchange[p]]
        BY <2>1 DEF FetchCopy
      <4> QED BY <4>1, <4>3, <4>4
    <3>2. flist' \in [Consumers -> SUBSET Paths] /\ UNCHANGED fpc
      BY <2>1 DEF FetchCopy, FetchType
    <3>3. ferr' \in [Consumers -> BOOLEAN]
      BY <2>1 DEF FetchCopy, FetchType
    <3> QED BY <3>1, <3>2, <3>3 DEF FetchType
  <2>3. FetchInv'
    BY <1>4, <2>1 DEF FetchCopy, FetchType, FetchInv, DirType
  <2> QED BY <1>2, <1>3, <2>2, <2>3
<1>7. CASE FetchEnd(k)
  <2>1. FetchType'
    <3>1. PICK x \in {"dead", "loop"} : fpc' = [fpc EXCEPT ![k] = x]
      BY <1>7 DEF FetchEnd
    <3>2. UNCHANGED <<fetched, flist, ferr>>
      BY <1>7 DEF FetchEnd
    <3>3. fpc' \in [Consumers -> {"init", "initcopy", "loop", "copy", "dead"}]
      BY <3>1 DEF FetchType
    <3> QED BY <3>2, <3>3 DEF FetchType
  <2>2. FetchInv'
    BY <1>4, <1>7 DEF FetchEnd, FetchInv
  <2> QED BY <1>2, <1>3, <2>1, <2>2
<1> QED
  BY <1>5, <1>6, <1>7 DEF Fetch

-----------------------------------------------------------------------------
\* IInv is inductive.
LEMMA NextIInv == IInv /\ [Next]_vars => IInv'
<1> SUFFICES ASSUME IInv, [Next]_vars PROVE IInv'
  OBVIOUS
<1>1. CASE UNCHANGED vars
  <2>1. UNCHANGED <<crsVars, dirVars, pc, passVars, copyVars, loopVars, faultVars, fetchVars>>
    BY <1>1 DEF vars, crsVars, dirVars, passVars, copyVars, loopVars, faultVars, fetchVars
  <2>2. CrsType' /\ SubmitInv' /\ DirType' /\ ExchangeInv' /\ LoopType' /\ FaultType'
    BY <2>1, KeepCrs, KeepDir, KeepLoop, KeepFaults DEF IInv, TypeOK
  <2>3. PassType' /\ CopyInv' /\ TempsAccounted'
    BY <2>1, KeepPass DEF IInv, TypeOK, crsVars, faultVars
  <2>4. FetchType' /\ FetchInv'
    BY <2>1, KeepFetch DEF IInv, TypeOK, dirVars
  <2> QED BY <2>2, <2>3, <2>4 DEF IInv, TypeOK
<1>2. CASE \E c \in CRSs : CrsStep(c)
  BY <1>2, CrsStepIInv
<1>3. CASE Sync
  BY <1>3, BeginPassIInv, EndDirIInv, EndPassIInv, RenameIInv, ChmodIInv, ListDirIInv,
     SkipExistingIInv, OpenAndCopyIInv, OpenFailsIInv DEF Sync
<1>4. CASE Faults
  BY <1>4, ScanFailsIInv, CopyFailsIInv, CrashIInv DEF Faults
<1>5. CASE Sigterm
  BY <1>5, SigtermIInv
<1>6. CASE Restart
  BY <1>6, RestartIInv
<1>7. CASE \E k \in Consumers : Fetch(k)
  BY <1>7, FetchIInv
<1> QED
  BY <1>1, <1>2, <1>3, <1>4, <1>5, <1>6, <1>7 DEF Next

\* The inductive invariant holds throughout.
THEOREM SpecIInv == Spec => []IInv
<1> QED
  BY InitIInv, NextIInv, PTL DEF Spec

\* Type correctness: in particular sync_once never reads through a link, and
\* no handler removes a temporary file it has already renamed away.
THEOREM SpecTypeOK == Spec => []TypeOK
<1>1. IInv => TypeOK
  BY DEF IInv
<1> QED
  BY <1>1, SpecIInv, PTL

\* No temporary file outlives its copy unless a crash left it.
THEOREM SpecTempsAccounted == Spec => []TempsAccounted
<1>1. IInv => TempsAccounted
  BY DEF IInv
<1> QED
  BY <1>1, SpecIInv, PTL

\* A consumer holds whole files only, although half-written dot files reach
\* EXCHANGE_DIR.
THEOREM SpecOnlyWholeFilesFetched == Spec => []OnlyWholeFilesFetched
<1>1. IInv => OnlyWholeFilesFetched
  <2> SUFFICES ASSUME IInv, NEW k \in Consumers, NEW p \in Paths, fetched[k][p] # None
               PROVE  fetched[k][p] \in Contents
    BY DEF OnlyWholeFilesFetched
  <2>1. p \notin Hidden /\ fetched[k][p] = exchange[p]
    BY DEF IInv, FetchInv, Visible
  <2>2. exchange[p] # Torn
    BY <2>1 DEF IInv, ExchangeInv
  <2> QED
    BY <2>1, <2>2 DEF IInv, TypeOK, DirType
<1> QED
  BY <1>1, SpecIInv, PTL

-----------------------------------------------------------------------------
(* The refinement: every step maps to a step of the board or to none.       *)

board == [p \in Visible |-> exchange[p]]
copies == [k \in Consumers |-> [p \in Visible |-> fetched[k][p]]]

\* The exchange starts as the board does.
LEMMA InitBoard == Init => Board!Init
  BY DEF Init, Board!Init, Visible

\* A step that submits, publishes and fetches nothing.
LEMMA StutterBoard ==
  ASSUME UNCHANGED <<posted, exchange, fetched>>
  PROVE  UNCHANGED Board!vars
  BY DEF Board!vars

\* A submission is an offer.
LEMMA SubmitBoard ==
  ASSUME NEW c \in CRSs, CrsStep(c)
  PROVE  Board!Next \/ UNCHANGED Board!vars
<1>1. UNCHANGED <<exchange, fetched>>
  BY DEF CrsStep, dirVars, fetchVars
<1>2. CASE \E p \in Visible, v \in Contents : posted' = posted \union {<<p, v>>}
  <2>1. PICK p \in Visible, v \in Contents : posted' = posted \union {<<p, v>>}
    BY <1>2
  <2>2. Board!Offer(p, v)
    BY <1>1, <2>1 DEF Board!Offer
  <2> QED BY <2>2 DEF Board!Next
<1>3. CASE posted' = posted
  BY <1>1, <1>3, StutterBoard
<1> QED
  BY <1>2, <1>3 DEF CrsStep, SubmitFile, WriteTemporary, PlaceLink

\* The rename publishes.
LEMMA RenameBoard ==
  ASSUME IInv, Rename
  PROVE  Board!Next \/ UNCHANGED Board!vars
<1>1. UNCHANGED <<posted, fetched>>
  BY DEF Rename, crsVars, fetchVars
<1>2. /\ cur \in Paths
      /\ exchange[cur] = None
      /\ exchange' = [exchange EXCEPT ![cur] = buf]
      /\ exchange \in [Paths -> Contents \union {None, Torn}]
  BY DEF Rename, IInv, CopyInv, TypeOK, DirType
<1>3. CASE cur \in Visible
  <2>1. PICK p \in Visible, v \in Contents : p = cur /\ v = buf /\ <<p, v>> \in posted
    BY <1>3 DEF Rename, IInv, CopyInv, Visible
  <2>2. board' = [board EXCEPT ![p] = v]
    BY <1>2, <2>1 DEF board, Visible
  <2>3. board[p] = None
    BY <1>2, <2>1 DEF board
  <2>4. copies' = copies
    BY <1>1 DEF copies
  <2>5. Board!Publish(p, v)
    BY <1>1, <2>1, <2>2, <2>3, <2>4 DEF Board!Publish, board, copies
  <2> QED BY <2>5 DEF Board!Next
<1>4. CASE cur \notin Visible
  <2>1. board' = board
    BY <1>2, <1>4 DEF board, Visible
  <2>2. copies' = copies
    BY <1>1 DEF copies
  <2> QED BY <1>1, <2>1, <2>2 DEF Board!vars, board, copies
<1> QED
  BY <1>3, <1>4

\* A fetch takes what is published.
LEMMA FetchBoard ==
  ASSUME IInv, NEW k \in Consumers, Fetch(k)
  PROVE  Board!Next \/ UNCHANGED Board!vars
<1>1. UNCHANGED <<posted, exchange>>
  BY DEF Fetch, crsVars, dirVars
<1>2. CASE fetched' = fetched
  BY <1>1, <1>2, StutterBoard
<1>3. CASE \E p \in Paths : FetchCopy(k, p) /\ fetched' = [fetched EXCEPT ![k][p] = exchange[p]]
  <2>1. PICK p \in Paths : /\ FetchCopy(k, p)
                           /\ fetched' = [fetched EXCEPT ![k][p] = exchange[p]]
    BY <1>3
  <2>2. p \in Visible /\ exchange[p] # None /\ fetched[k][p] = None
    BY <2>1 DEF FetchCopy, IInv, FetchInv
  <2>3. fetched \in [Consumers -> [Paths -> Contents \union {None, Torn}]]
    BY DEF IInv, TypeOK, FetchType
  <2>4. board[p] = exchange[p]
    BY <2>2 DEF board
  <2>5. copies[k][p] = None
    BY <2>2 DEF copies
  <2>6. copies' = [copies EXCEPT ![k][p] = exchange[p]]
    BY <2>1, <2>2, <2>3 DEF copies, Visible
  <2>7. board' = board
    BY <1>1 DEF board
  <2>8. Board!Take(k, p)
    BY <1>1, <2>2, <2>4, <2>5, <2>6, <2>7 DEF Board!Take, board, copies
  <2> QED BY <2>2, <2>8 DEF Board!Next
<1> QED
  BY <1>2, <1>3 DEF Fetch, FetchList, FetchCopy, FetchEnd

\* Every step of the exchange is one of the board, or none.
LEMMA NextBoard == IInv /\ [Next]_vars => [Board!Next]_(Board!vars)
<1> SUFFICES ASSUME IInv, [Next]_vars PROVE Board!Next \/ UNCHANGED Board!vars
  OBVIOUS
<1>1. CASE UNCHANGED vars
  BY <1>1, StutterBoard DEF vars
<1>2. CASE \E c \in CRSs : CrsStep(c)
  BY <1>2, SubmitBoard
<1>3. CASE Rename
  BY <1>3, RenameBoard
<1>4. CASE \E k \in Consumers : Fetch(k)
  BY <1>4, FetchBoard
<1>5. CASE Sync /\ ~Rename
  <2>1. UNCHANGED <<posted, exchange, fetched>>
    BY <1>5 DEF Sync, BeginPass, EndDir, EndPass, Chmod, ListDir, SkipExisting,
       OpenAndCopy, OpenFails, crsVars, dirVars, fetchVars
  <2> QED BY <2>1, StutterBoard
<1>6. CASE Faults \/ Sigterm \/ Restart
  <2>1. UNCHANGED <<posted, exchange, fetched>>
    BY <1>6 DEF Faults, ScanFails, CopyFails, Crash, Sigterm, Restart, crsVars, dirVars,
       fetchVars
  <2> QED BY <2>1, StutterBoard
<1> QED
  BY <1>1, <1>2, <1>3, <1>4, <1>5, <1>6 DEF Next

\* The sidecar and the fetch daemons implement the artifact board: one whole
\* artifact per visible path, never replaced, and only copies of it fetched,
\* across crashes, restarts and failing calls.
THEOREM SpecImplementsBoard == Spec => ImplementsBoard
<1> QED
  BY InitBoard, SpecIInv, NextBoard, PTL DEF Spec, ImplementsBoard, Board!Spec

-----------------------------------------------------------------------------
(* The final pass drains the SUBMIT_DIRs.                                   *)

\* What was present at the signal can only become a link: a CRS replaces no file.
PresentInv ==
  /\ present # {} => stopping
  /\ \A c \in CRSs, p \in Visible :
       <<c, p>> \in present => submit[c][p] \in Contents \union {Link}

\* The file is still to be handled by this pass.
Pending(c, p) ==
  \/ <<c, DirOf[p]>> \in todo
  \/ pc \in {"entry", "copied", "renamed"} /\ source = c /\ p \in entries

\* The final pass loses sight of no file that was present at the signal.
LastPassInv ==
  /\ last => stopping
  /\ pc = "exited" => last /\ todo = {}
  /\ pc = "renamed" => exchange[cur] # None
  /\ last /\ pc \in {"scan", "entry", "copied", "renamed", "exited"} =>
       \A c \in CRSs, p \in Visible \ missed :
         <<c, p>> \in present /\ submit[c][p] \in Contents
           => exchange[p] # None \/ Pending(c, p)

DrainInv == PresentInv /\ LastPassInv

\* Nothing is present at a signal yet.
LEMMA InitDrain == Init => DrainInv
  BY DEF Init, DrainInv, PresentInv, LastPassInv

\* A CRS may replace a file by a link, and does nothing else to one that is there.
LEMMA CrsReplaces ==
  ASSUME CrsType, NEW d \in CRSs, CrsStep(d), NEW c \in CRSs, NEW p \in Visible,
         submit[c][p] \in Contents \union {Link}
  PROVE  submit'[c][p] \in {submit[c][p], Link}
<1> USE ExchangeAssumption DEF CrsType
<1>1. p \in Paths \ Hidden
  BY DEF Visible
<1>2. PICK q \in Paths : \/ \E v \in Contents : SubmitFile(d, q, v)
                         \/ WriteTemporary(d, q)
                         \/ PlaceLink(d, q)
  BY DEF CrsStep
<1>3. ASSUME NEW v \in Contents, SubmitFile(d, q, v) PROVE submit'[c][p] = submit[c][p]
  BY <1>1, <1>3 DEF SubmitFile
<1>4. CASE WriteTemporary(d, q)
  <2>1. q # p /\ \E f : submit' = [submit EXCEPT ![d][q] = f]
    BY <1>1, <1>4 DEF WriteTemporary
  <2> QED
    BY <1>1, <2>1
<1>5. CASE PlaceLink(d, q)
  BY <1>1, <1>5 DEF PlaceLink
<1> QED
  BY <1>2, <1>3, <1>4, <1>5

\* Only the CRSs and the signal touch what PresentInv is about.
LEMMA PresentStep ==
  ASSUME IInv, PresentInv, Next
  PROVE  PresentInv'
<1> USE ExchangeAssumption
<1>1. ASSUME NEW d \in CRSs, CrsStep(d) PROVE PresentInv'
  <2>1. UNCHANGED <<present, stopping>>
    BY <1>1 DEF CrsStep, loopVars
  <2>2. ASSUME NEW c \in CRSs, NEW p \in Visible, <<c, p>> \in present
        PROVE  submit'[c][p] \in Contents \union {Link}
    <3>1. submit[c][p] \in Contents \union {Link}
      BY <2>2 DEF PresentInv
    <3> QED
      BY <1>1, <3>1, CrsReplaces DEF IInv, TypeOK
  <2> QED
    BY <2>1, <2>2 DEF PresentInv
<1>2. CASE Sigterm
  BY <1>2 DEF Sigterm, PresentInv, crsVars
<1>3. CASE Sync
  BY <1>3 DEF Sync, BeginPass, EndDir, EndPass, Rename, Chmod, ListDir, SkipExisting,
     OpenAndCopy, OpenFails, PresentInv, crsVars, loopVars
<1>4. CASE Faults \/ Restart \/ \E k \in Consumers : Fetch(k)
  BY <1>4 DEF Faults, ScanFails, CopyFails, Crash, Restart, Fetch, PresentInv, crsVars, loopVars
<1> QED
  BY <1>1, <1>2, <1>3, <1>4 DEF Next

\* What every step of the sidecar has to keep.
LEMMA LastPassSync ==
  ASSUME IInv, DrainInv, Sync
  PROVE  LastPassInv'
<1> USE ExchangeAssumption DEF IInv, TypeOK, DrainInv, LastPassInv, Pending
<1>1. CASE BeginPass
  BY <1>1 DEF BeginPass, Visible, crsVars, dirVars
<1>2. CASE EndDir
  BY <1>2 DEF EndDir, crsVars, dirVars, loopVars
<1>3. CASE EndPass
  BY <1>3 DEF EndPass, crsVars, dirVars, loopVars
<1>4. CASE Rename
  BY <1>4 DEF Rename, CopyInv, DirType, crsVars, passVars, copyVars, loopVars
<1>5. CASE Chmod
  BY <1>5 DEF Chmod, crsVars, loopVars
<1>6. ASSUME NEW c \in CRSs, NEW d \in AllowedDirs, ListDir(c, d) PROVE LastPassInv'
  BY <1>6 DEF ListDir, Visible, crsVars, dirVars, loopVars
<1>7. ASSUME NEW p \in Paths, SkipExisting(p) PROVE LastPassInv'
  BY <1>7 DEF SkipExisting, crsVars, dirVars, loopVars
<1>8. ASSUME NEW p \in Paths, OpenAndCopy(p) PROVE LastPassInv'
  BY <1>8 DEF OpenAndCopy, crsVars, passVars, loopVars
<1>9. ASSUME NEW p \in Paths, OpenFails(p) PROVE LastPassInv'
  BY <1>9 DEF OpenFails, crsVars, dirVars, loopVars
<1> QED
  BY <1>1, <1>2, <1>3, <1>4, <1>5, <1>6, <1>7, <1>8, <1>9 DEF Sync

\* The other steps of the sidecar handle no file, or only make it visible or missed.
LEMMA LastPassOthers ==
  ASSUME IInv, DrainInv, Faults \/ Sigterm \/ Restart \/ \E k \in Consumers : Fetch(k)
  PROVE  LastPassInv'
<1> USE DEF IInv, TypeOK, DrainInv, LastPassInv, Pending
<1>1. CASE ScanFails
  BY <1>1 DEF ScanFails, crsVars, dirVars, loopVars
<1>2. CASE CopyFails
  BY <1>2 DEF CopyFails, crsVars, loopVars
<1>3. CASE Crash
  BY <1>3 DEF Crash, Running, crsVars, dirVars, loopVars
<1>4. CASE Sigterm
  BY <1>4 DEF Sigterm, crsVars, dirVars, passVars, copyVars
<1>5. CASE Restart
  BY <1>5 DEF Restart, crsVars, dirVars, passVars, copyVars, loopVars
<1>6. CASE \E k \in Consumers : Fetch(k)
  BY <1>6 DEF Fetch, crsVars, dirVars, passVars, copyVars, loopVars
<1> QED
  BY <1>1, <1>2, <1>3, <1>4, <1>5, <1>6 DEF Faults

\* A CRS's step makes no file pending: what it adds was not present at the signal.
LEMMA LastPassCrs ==
  ASSUME IInv, DrainInv, NEW d \in CRSs, CrsStep(d)
  PROVE  LastPassInv'
<1>1. UNCHANGED <<exchange, pc, todo, source, entries, missed, cur, stopping, last, present>>
  BY DEF CrsStep, dirVars, passVars, copyVars, loopVars
<1>2. ASSUME NEW c \in CRSs, NEW p \in Visible, <<c, p>> \in present,
             submit'[c][p] \in Contents
      PROVE  submit[c][p] \in Contents
  <2>1. submit[c][p] \in Contents \union {Link}
    BY <1>2 DEF DrainInv, PresentInv
  <2> QED
    BY <1>2, <2>1, CrsReplaces, ExchangeAssumption DEF IInv, TypeOK
<1> QED
  BY <1>1, <1>2 DEF DrainInv, LastPassInv, Pending

\* No step of the final pass loses sight of a file.
LEMMA NextDrain == IInv /\ DrainInv /\ [Next]_vars => DrainInv'
<1>1. ASSUME IInv, DrainInv, Next PROVE DrainInv'
  BY <1>1, PresentStep, LastPassSync, LastPassOthers, LastPassCrs DEF Next, DrainInv
<1>2. ASSUME DrainInv, UNCHANGED vars PROVE DrainInv'
  BY <1>2 DEF vars, DrainInv, PresentInv, LastPassInv, Pending
<1> QED
  BY <1>1, <1>2

\* What was in a SUBMIT_DIR when SIGTERM came, still is when the sidecar has exited and was
\* not missed by a failing call, has been published, however late its pass came to it.
THEOREM SpecDrainedOnExit == Spec => []DrainedOnExit
<1>1. IInv /\ DrainInv => DrainedOnExit
  BY DEF IInv, TypeOK, DirType, ExchangeInv, DrainInv, LastPassInv, Pending, DrainedOnExit, Visible
<1> QED
  BY <1>1, InitDrain, NextDrain, SpecIInv, PTL DEF Spec
=============================================================================
