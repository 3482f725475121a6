------------------------ MODULE AuthorityUploadProofs ------------------------
(***************************************************************************)
(* AuthorityUpload for any number of uploads of any workbooks, of which    *)
(* any may fail: no topic or slot goes to an unknown authority, and a      *)
(* workbook is stored whole or not at all, and circular waits are deadlocks. *)
(***************************************************************************)
EXTENDS AuthorityUpload, FiniteSetTheorems, WellFoundedInduction, TLAPS

(* The rows u can count on: nothing takes them away before u has ended.     *)
Held(u) == committed \cup inserted[u]

(* Where a transaction may be, and what it has inserted.                    *)
Progress ==
  \A u \in Upload :
    /\ pc[u] \in {"idle", "select"} => stage[u] = 1 /\ at[u] = 1
    /\ pc[u] = "commit" => stage[u] = 3
    /\ inserted[u] \subseteq AllRows(u)
    /\ pc[u] \in {"idle", "stored", "rolledback"} => inserted[u] = {}

(* Every row an upload has passed is there or will be when it commits,      *)
(* whoever has inserted it.                                                 *)
PassedHeld ==
  \A u \in Upload :
    /\ pc[u] = "insert" =>
         /\ \A k \in Stage : k < stage[u] => RowsOf(File[u], k) \subseteq Held(u)
         /\ \A i \in DOMAIN File[u][stage[u]] : i < at[u] => File[u][stage[u]][i] \in Held(u)
    /\ pc[u] = "select" => RowsOf(File[u], 1) \subseteq Held(u)
    /\ pc[u] = "commit" => \A k \in Stage : RowsOf(File[u], k) \subseteq Held(u)

UInv == TypeOK /\ Progress /\ PassedHeld /\ NamesResolve
-----------------------------------------------------------------------------
LEMMA FileRows ==
  ASSUME NEW u \in Upload, NEW k \in Stage
  PROVE  /\ File[u][k] \in Seq(Row)
         /\ DOMAIN File[u][k] = 1 .. Len(File[u][k])
         /\ Len(File[u][k]) \in Nat
         /\ 1 \in DOMAIN File[u][k]
         /\ \A i \in DOMAIN File[u][k] : File[u][k][i] \in Row
  <1>1. File[u][k] \in Seq(Row) /\ File[u][k] # <<>> BY FileAssumption
  <1> DEFINE s == File[u][k]
  <1>2. s \in Seq(Row) /\ s # <<>> BY <1>1
  <1> HIDE DEF s
  <1>3. /\ DOMAIN s = 1 .. Len(s) /\ Len(s) \in Nat /\ 1 \in DOMAIN s
        /\ \A i \in DOMAIN s : s[i] \in Row
    BY <1>2
  <1> QED BY <1>2, <1>3 DEF s

(* How an insert goes on.                                                   *)
LEMMA AdvanceSteps ==
  ASSUME TypeOK, NEW u \in Upload, pc[u] = "insert", Advance(u)
  PROVE  LET last == Len(File[u][stage[u]]) IN
         \/ /\ at[u] < last /\ at' = [at EXCEPT ![u] = at[u] + 1]
            /\ stage' = stage /\ pc' = pc
         \/ /\ at[u] = last /\ at' = [at EXCEPT ![u] = 1]
            /\ \/ stage[u] = 1 /\ stage' = [stage EXCEPT ![u] = 1] /\ pc' = [pc EXCEPT ![u] = "select"]
               \/ stage[u] = 2 /\ stage' = [stage EXCEPT ![u] = 3] /\ pc' = [pc EXCEPT ![u] = "insert"]
               \/ stage[u] = 3 /\ stage' = [stage EXCEPT ![u] = 3] /\ pc' = [pc EXCEPT ![u] = "commit"]
  <1>1. stage[u] \in Stage BY DEF TypeOK
  <1>2. at[u] \in 1 .. Len(File[u][stage[u]]) /\ Len(File[u][stage[u]]) \in Nat
    BY <1>1, FileRows DEF TypeOK
  <1>3. CASE at[u] < Len(File[u][stage[u]]) BY <1>3 DEF Advance
  <1>4. CASE ~(at[u] < Len(File[u][stage[u]]))
    <2>1. at[u] = Len(File[u][stage[u]]) BY <1>2, <1>4
    <2>2. CASE stage[u] = 1 BY <1>4, <2>1, <2>2 DEF Advance
    <2>3. CASE stage[u] = 2 BY <1>4, <2>1, <2>3 DEF Advance
    <2>4. CASE stage[u] = 3 BY <1>4, <2>1, <2>4 DEF Advance
    <2> QED BY <1>1, <2>2, <2>3, <2>4 DEF Stage
  <1> QED BY <1>3, <1>4

(* What a step leaves of an upload it is not about.                         *)
LEMMA OthersKeep ==
  ASSUME UInv, NEW u \in Upload, Post(u) \/ Handle(u) \/ RollBack(u),
         NEW v \in Upload, v # u
  PROVE  /\ pc'[v] = pc[v] /\ stage'[v] = stage[v] /\ at'[v] = at[v]
         /\ known'[v] = known[v] /\ inserted'[v] = inserted[v]
  <1>1. CASE Post(u) BY <1>1 DEF Post, UInv, TypeOK
  <1>2. CASE InsertRow(u) BY <1>2, AdvanceSteps DEF InsertRow, UInv, TypeOK
  <1>3. CASE SelectAuthorities(u) BY <1>3 DEF SelectAuthorities, UInv, TypeOK
  <1>4. CASE Commit(u) BY <1>4 DEF Commit, UInv, TypeOK
  <1>5. CASE RollBack(u) BY <1>5 DEF RollBack, UInv, TypeOK
  <1> QED BY <1>1, <1>2, <1>3, <1>4, <1>5 DEF Handle

(* The tables only grow.                                                    *)
LEMMA TablesGrow ==
  ASSUME NEW u \in Upload, Post(u) \/ Handle(u) \/ RollBack(u)
  PROVE  committed \subseteq committed'
  BY DEF Post, Handle, InsertRow, SelectAuthorities, Commit, RollBack

(* A step of the others keeps what u holds, and so does its own until it    *)
(* has ended.                                                               *)
LEMMA HeldGrows ==
  ASSUME UInv, NEW u \in Upload, Post(u) \/ Handle(u) \/ RollBack(u),
         NEW v \in Upload, v = u => ~RollBack(u)
  PROVE  Held(v) \subseteq Held(v)'
  <1>1. CASE v # u BY <1>1, OthersKeep, TablesGrow DEF Held
  <1>2. CASE v = u
    <2>1. CASE Post(u) BY <1>2, <2>1 DEF Post, Held
    <2>2. CASE InsertRow(u) BY <1>2, <2>2 DEF InsertRow, Held, UInv, TypeOK
    <2>3. CASE SelectAuthorities(u) BY <1>2, <2>3 DEF SelectAuthorities, Held
    <2>4. CASE Commit(u) BY <1>2, <2>4 DEF Commit, Held
    <2> QED BY <1>2, <2>1, <2>2, <2>3, <2>4 DEF Handle
  <1> QED BY <1>1, <1>2

LEMMA TypeStep ==
  ASSUME UInv, NEW u \in Upload, Post(u) \/ Handle(u) \/ RollBack(u)
  PROVE  TypeOK'
  <1> USE DEF UInv
  <1>1. CASE Post(u)
    <2>1. 1 \in DOMAIN File[u][1] BY FileRows DEF Stage
    <2>2. pc' \in [Upload -> {"idle", "insert", "select", "commit", "stored", "rolledback"}]
      BY <1>1 DEF Post, TypeOK
    <2>3. \A v \in Upload : pc'[v] = "insert" => at[v] \in DOMAIN File[v][stage[v]]
      BY <1>1, <2>1 DEF Post, TypeOK, Progress
    <2> QED BY <1>1, <2>2, <2>3 DEF Post, TypeOK
  <1>2. CASE InsertRow(u)
    <2>1. stage[u] \in Stage /\ Current(u) \in Row
      BY <1>2, FileRows DEF InsertRow, Current, TypeOK
    <2>2. inserted' \in [Upload -> SUBSET Row] BY <1>2, <2>1 DEF InsertRow, TypeOK
    <2>3. /\ stage' \in [Upload -> Stage]
          /\ at' \in [Upload -> Nat]
          /\ pc' \in [Upload -> {"idle", "insert", "select", "commit", "stored", "rolledback"}]
      <3>1. at[u] \in Nat /\ at[u] + 1 \in Nat /\ 1 \in Nat /\ {1, 2, 3} \subseteq Stage
        BY DEF TypeOK, Stage
      <3>2. /\ \E n \in Nat : at' = [at EXCEPT ![u] = n]
            /\ \E k \in Stage : stage' = stage \/ stage' = [stage EXCEPT ![u] = k]
            /\ \E p \in {"insert", "select", "commit"} : pc' = pc \/ pc' = [pc EXCEPT ![u] = p]
        BY <1>2, <3>1, AdvanceSteps DEF InsertRow
      <3> QED BY <3>2 DEF TypeOK
    <2>4. pc'[u] = "insert" => at'[u] \in DOMAIN File[u][stage'[u]]
      <3>1. at[u] \in 1 .. Len(File[u][stage[u]]) /\ Len(File[u][stage[u]]) \in Nat
        BY <1>2, <2>1, FileRows DEF InsertRow, TypeOK
      <3>2. DOMAIN File[u][stage[u]] = 1 .. Len(File[u][stage[u]]) BY <2>1, FileRows
      <3>3. 1 \in DOMAIN File[u][3] BY FileRows DEF Stage
      <3>4. u \in DOMAIN at /\ u \in DOMAIN stage /\ u \in DOMAIN pc BY DEF TypeOK
      <3> QED BY <1>2, <3>1, <3>2, <3>3, <3>4, AdvanceSteps DEF InsertRow
    <2>5. \A v \in Upload : pc'[v] = "insert" => at'[v] \in DOMAIN File[v][stage'[v]]
      BY <2>4, OthersKeep DEF TypeOK
    <2> QED BY <1>2, <2>2, <2>3, <2>5 DEF InsertRow, TypeOK
  <1>3. CASE SelectAuthorities(u)
    <2>1. known' \in [Upload -> SUBSET Name]
      <3>1. NamesIn(committed \cup inserted[u]) \subseteq Name
        BY DEF NamesIn, AuthorityRows, TypeOK, Row
      <3> QED BY <1>3, <3>1 DEF SelectAuthorities, TypeOK
    <2>2. stage' \in [Upload -> Stage] /\ pc' \in [Upload -> {"idle", "insert", "select", "commit", "stored", "rolledback"}]
      BY <1>3 DEF SelectAuthorities, TypeOK, Stage
    <2>3. 1 \in DOMAIN File[u][2] BY FileRows DEF Stage
    <2>4. \A v \in Upload : pc'[v] = "insert" => at'[v] \in DOMAIN File[v][stage'[v]]
      BY <1>3, <2>3 DEF SelectAuthorities, TypeOK, Progress
    <2> QED BY <1>3, <2>1, <2>2, <2>4 DEF SelectAuthorities, TypeOK
  <1>4. CASE Commit(u) BY <1>4 DEF Commit, TypeOK
  <1>5. CASE RollBack(u) BY <1>5 DEF RollBack, TypeOK
  <1> QED BY <1>1, <1>2, <1>3, <1>4, <1>5 DEF Handle

LEMMA ProgressStep ==
  ASSUME UInv, NEW u \in Upload, Post(u) \/ Handle(u) \/ RollBack(u)
  PROVE  Progress'
  <1> USE DEF UInv
  <1>1. ASSUME NEW v \in Upload, v # u
        PROVE  /\ pc'[v] \in {"idle", "select"} => stage'[v] = 1 /\ at'[v] = 1
               /\ pc'[v] = "commit" => stage'[v] = 3
               /\ inserted'[v] \subseteq AllRows(v)
               /\ pc'[v] \in {"idle", "stored", "rolledback"} => inserted'[v] = {}
    BY <1>1, OthersKeep DEF Progress
  <1>2. /\ pc'[u] \in {"idle", "select"} => stage'[u] = 1 /\ at'[u] = 1
        /\ pc'[u] = "commit" => stage'[u] = 3
        /\ inserted'[u] \subseteq AllRows(u)
        /\ pc'[u] \in {"idle", "stored", "rolledback"} => inserted'[u] = {}
    <2>1. CASE Post(u) BY <2>1 DEF Post, TypeOK, Progress
    <2>2. CASE InsertRow(u)
      <3>1. Current(u) \in AllRows(u)
        BY <2>2 DEF InsertRow, Current, AllRows, RowsOf, TypeOK
      <3>2. inserted'[u] \subseteq AllRows(u) BY <2>2, <3>1 DEF InsertRow, TypeOK, Progress
      <3>3. u \in DOMAIN at /\ u \in DOMAIN stage /\ u \in DOMAIN pc BY DEF TypeOK
      <3>4. /\ pc'[u] = "select" => stage'[u] = 1 /\ at'[u] = 1
            /\ pc'[u] = "commit" => stage'[u] = 3
            /\ pc'[u] \in {"insert", "select", "commit"}
        BY <2>2, <3>3, AdvanceSteps DEF InsertRow
      <3> QED BY <3>2, <3>4
    <2>3. CASE SelectAuthorities(u) BY <2>3 DEF SelectAuthorities, TypeOK, Progress
    <2>4. CASE Commit(u) BY <2>4 DEF Commit, TypeOK
    <2>5. CASE RollBack(u) BY <2>5 DEF RollBack, TypeOK
    <2> QED BY <2>1, <2>2, <2>3, <2>4, <2>5 DEF Handle
  <1> QED BY <1>1, <1>2 DEF Progress

LEMMA PassedHeldStep ==
  ASSUME UInv, NEW u \in Upload, Post(u) \/ Handle(u) \/ RollBack(u)
  PROVE  PassedHeld'
  <1> USE DEF UInv
  <1> DEFINE Part(v) ==
        /\ pc[v] = "insert" =>
             /\ \A k \in Stage : k < stage[v] => RowsOf(File[v], k) \subseteq Held(v)
             /\ \A i \in DOMAIN File[v][stage[v]] : i < at[v] => File[v][stage[v]][i] \in Held(v)
        /\ pc[v] = "select" => RowsOf(File[v], 1) \subseteq Held(v)
        /\ pc[v] = "commit" => \A k \in Stage : RowsOf(File[v], k) \subseteq Held(v)
  <1>0. \A v \in Upload : Part(v) BY DEF PassedHeld
  <1>1. ASSUME NEW v \in Upload, v # u PROVE Part(v)'
    <2>1. Held(v) \subseteq Held(v)' BY <1>1, HeldGrows
    <2> QED BY <1>0, <1>1, <2>1, OthersKeep
  <1>2. Part(u)'
    <2>1. CASE Post(u)
      <3>1. pc'[u] = "insert" /\ stage'[u] = 1 /\ at'[u] = 1
        BY <2>1 DEF Post, TypeOK, Progress
      <3>2. \A i \in DOMAIN File[u][1] : ~(i < 1) BY FileRows DEF Stage
      <3>3. \A k \in Stage : ~(k < 1) BY DEF Stage
      <3> QED BY <3>1, <3>2, <3>3
    <2>2. CASE InsertRow(u)
      <3> DEFINE f == File[u][stage[u]]
      <3>1. stage[u] \in Stage /\ pc[u] = "insert" /\ Advance(u) /\ at[u] \in DOMAIN f
            /\ at[u] \in Nat
        BY <2>2 DEF InsertRow, TypeOK
      <3>2. DOMAIN f = 1 .. Len(f) /\ Len(f) \in Nat BY <3>1, FileRows
      <3>3. Held(u) \subseteq Held(u)' BY <2>2 DEF InsertRow, Held, TypeOK
      <3>4. f[at[u]] \in Held(u)' BY <2>2 DEF InsertRow, Current, Held, TypeOK
      <3>5. \A i \in DOMAIN f : i <= at[u] => f[i] \in Held(u)'
        <4> TAKE i \in DOMAIN f
        <4> HAVE i <= at[u]
        <4>1. i < at[u] \/ i = at[u] BY <3>1, <3>2
        <4> QED BY <4>1, <3>1, <3>3, <3>4, <1>0
      <3>6. \A k \in Stage : k < stage[u] => RowsOf(File[u], k) \subseteq Held(u)'
        BY <1>0, <3>1, <3>3
      <3>7. u \in DOMAIN at /\ u \in DOMAIN stage /\ u \in DOMAIN pc BY DEF TypeOK
      <3> HIDE DEF f
      <3>8. CASE at[u] < Len(f) /\ at'[u] = at[u] + 1 /\ stage' = stage /\ pc' = pc
        <4>1. \A i \in DOMAIN f : i < at'[u] => i <= at[u] BY <3>1, <3>2, <3>8
        <4> QED BY <3>1, <3>5, <3>6, <3>8, <4>1 DEF f
      <3>9. CASE at[u] = Len(f) /\ at'[u] = 1
        <4>1. RowsOf(File[u], stage[u]) \subseteq Held(u)'
          <5>1. \A i \in DOMAIN f : f[i] \in Held(u)' BY <3>2, <3>5, <3>9
          <5> QED BY <5>1 DEF RowsOf, f
        <4>2. \A k \in Stage : k <= stage[u] => RowsOf(File[u], k) \subseteq Held(u)'
          <5> TAKE k \in Stage
          <5>1. k <= stage[u] => k < stage[u] \/ k = stage[u] BY <3>1 DEF Stage
          <5> QED BY <5>1, <4>1, <3>6
        <4>3. \A i \in DOMAIN File[u][3] : ~(i < 1) BY FileRows DEF Stage
        <4>4. CASE stage[u] = 1 /\ pc'[u] = "select"
          BY <4>2, <4>4 DEF Stage
        <4>5. CASE stage[u] = 2 /\ stage'[u] = 3 /\ pc'[u] = "insert"
          <5>1. \A k \in Stage : k < stage'[u] => k <= stage[u] BY <4>5 DEF Stage
          <5> QED BY <5>1, <4>2, <4>3, <4>5, <3>9
        <4>6. CASE stage[u] = 3 /\ pc'[u] = "commit"
          <5>1. \A k \in Stage : k <= stage[u] BY <4>6 DEF Stage
          <5> QED BY <5>1, <4>2, <4>6
        <4> QED BY <3>1, <3>2, <3>7, <3>9, <4>4, <4>5, <4>6, AdvanceSteps DEF f
      <3> QED BY <3>1, <3>7, <3>8, <3>9, AdvanceSteps DEF f
    <2>3. CASE SelectAuthorities(u)
      <3>1. pc[u] = "select" /\ at'[u] = 1 /\ stage'[u] = 2 /\ pc'[u] = "insert"
            /\ Held(u)' = Held(u)
        BY <2>3 DEF SelectAuthorities, Held, TypeOK, Progress
      <3>2. \A k \in Stage : k < 2 => k = 1 BY DEF Stage
      <3>3. \A i \in DOMAIN File[u][2] : ~(i < 1) BY FileRows DEF Stage
      <3> QED BY <1>0, <3>1, <3>2, <3>3
    <2>4. CASE Commit(u) BY <2>4 DEF Commit, TypeOK
    <2>5. CASE RollBack(u) BY <2>5 DEF RollBack, TypeOK
    <2> QED BY <2>1, <2>2, <2>3, <2>4, <2>5 DEF Handle
  <1> QED BY <1>1, <1>2 DEF PassedHeld

(* The selected names cover the workbook because its authorities are held.  *)
LEMMA NamesStep ==
  ASSUME UInv, NEW u \in Upload, Post(u) \/ Handle(u) \/ RollBack(u)
  PROVE  NamesResolve'
  <1> USE DEF UInv
  <1> DEFINE Part(v) ==
        (pc[v] = "insert" /\ stage[v] \in {2, 3}) \/ pc[v] = "commit" =>
          NamesIn(RowsOf(File[v], 1)) \subseteq known[v]
  <1>0. \A v \in Upload : Part(v) BY DEF NamesResolve
  <1>1. ASSUME NEW v \in Upload, v # u PROVE Part(v)' BY <1>0, <1>1, OthersKeep
  <1>2. Part(u)'
    <2>1. CASE Post(u) BY <2>1 DEF Post, TypeOK, Progress
    <2>2. CASE InsertRow(u)
      <3>1. u \in DOMAIN at /\ u \in DOMAIN stage /\ u \in DOMAIN pc BY DEF TypeOK
      <3>2. \/ stage'[u] = stage[u] /\ pc'[u] = "insert"
            \/ stage'[u] = 1 /\ pc'[u] = "select"
            \/ stage[u] \in {2, 3}
        BY <2>2, <3>1, AdvanceSteps DEF InsertRow
      <3> QED BY <1>0, <2>2, <3>2 DEF InsertRow
    <2>3. CASE SelectAuthorities(u)
      <3>1. RowsOf(File[u], 1) \subseteq committed \cup inserted[u]
        BY <2>3 DEF SelectAuthorities, PassedHeld, Held
      <3>2. NamesIn(RowsOf(File[u], 1)) \subseteq NamesIn(committed \cup inserted[u])
        BY <3>1 DEF NamesIn, AuthorityRows
      <3> QED BY <2>3, <3>2 DEF SelectAuthorities, TypeOK
    <2>4. CASE Commit(u) BY <2>4 DEF Commit, TypeOK
    <2>5. CASE RollBack(u) BY <2>5 DEF RollBack, TypeOK
    <2> QED BY <2>1, <2>2, <2>3, <2>4, <2>5 DEF Handle
  <1> QED BY <1>1, <1>2 DEF NamesResolve

(* Every step is one upload's.                                              *)
LEMMA StepOfOne ==
  ASSUME Next
  PROVE  \E u \in Upload : Post(u) \/ Handle(u) \/ RollBack(u)
  BY DEF Next, BreakDeadlock, Fail

LEMMA UInvStep == UInv /\ [Next]_vars => UInv'
  <1> SUFFICES ASSUME UInv, [Next]_vars PROVE UInv' OBVIOUS
  <1>1. CASE UNCHANGED vars
    BY <1>1 DEF vars, UInv, TypeOK, Progress, PassedHeld, Held, NamesResolve
  <1>2. CASE Next
    <2>1. PICK u \in Upload : Post(u) \/ Handle(u) \/ RollBack(u) BY <1>2, StepOfOne
    <2> QED BY <2>1, TypeStep, ProgressStep, PassedHeldStep, NamesStep DEF UInv
  <1> QED BY <1>1, <1>2

LEMMA UInvInit == Init => UInv
  <1> SUFFICES ASSUME Init PROVE UInv OBVIOUS
  <1>1. TypeOK BY DEF Init, TypeOK, Stage
  <1>2. Progress BY DEF Init, Progress
  <1>3. PassedHeld /\ NamesResolve BY DEF Init, PassedHeld, NamesResolve
  <1> QED BY <1>1, <1>2, <1>3 DEF UInv

LEMMA UInvAlways == Spec => []UInv
  BY UInvInit, UInvStep, PTL DEF Spec

(* The variables of the upload keep their types, for workbooks of any size. *)
THEOREM UploadTypeCorrect == Spec => []TypeOK
  <1>1. UInv => TypeOK BY DEF UInv
  <1> QED BY UInvAlways, <1>1, PTL

(* Whichever upload has created an authority, all others find its id, so no *)
(* topic or slot goes to authority zero.                                    *)
THEOREM UploadNamesResolve == Spec => []NamesResolve
  <1>1. UInv => NamesResolve BY DEF UInv
  <1> QED BY UInvAlways, <1>1, PTL

(* A commit completes a whole workbook, including the rows that were left   *)
(* to other uploads, and nothing else changes the tables.                   *)
THEOREM UploadsAreWhole == Spec => WholeWorkbooks
  <1> DEFINE Whole == committed' # committed =>
        \E u \in Upload : pc[u] = "commit" /\ committed' = committed \cup AllRows(u)
  <1>1. UInv /\ [Next]_vars => [Whole]_vars
    <2> SUFFICES ASSUME UInv, Next, committed' # committed
                 PROVE  \E u \in Upload : pc[u] = "commit" /\ committed' = committed \cup AllRows(u)
      OBVIOUS
    <2>1. PICK u \in Upload : Post(u) \/ Handle(u) \/ RollBack(u) BY StepOfOne
    <2>2. Commit(u) BY <2>1 DEF Post, Handle, InsertRow, SelectAuthorities, RollBack
    <2>3. AllRows(u) \subseteq Held(u) BY <2>2 DEF Commit, AllRows, UInv, PassedHeld
    <2>4. inserted[u] \subseteq AllRows(u) BY DEF UInv, Progress
    <2>5. committed' = committed \cup AllRows(u) BY <2>2, <2>3, <2>4 DEF Commit, Held
    <2> QED BY <2>2, <2>5 DEF Commit
  <1> HIDE DEF Whole
  <1>2. Spec => [][Whole]_vars BY UInvAlways, <1>1, PTL DEF Spec
  <1> QED BY <1>2 DEF Whole, WholeWorkbooks
-----------------------------------------------------------------------------
(* Where everyone waits for somebody there is a circle: in a least group of *)
(* that kind everyone is waited for, too.                                   *)
LEMMA CircleIn ==
  ASSUME NEW G \in SUBSET Upload, G # {},
         \A u \in G : \E v \in G : WaitsFor(u, v)
  PROVE  \E u \in G : Deadlocked(u)
  <1> DEFINE Closed == {H \in SUBSET G : H # {} /\ \A u \in H : \E v \in H : WaitsFor(u, v)}
  <1>1. IsWellFoundedOn(StrictSubsetOrdering(Upload), SUBSET Upload)
    BY FiniteAssumption, FS_FiniteSubsetsOfFinite, FS_StrictSubsetOrderingWellFounded
  <1>2. Closed \subseteq SUBSET Upload /\ Closed # {}
    <2>1. G \in Closed OBVIOUS
    <2> QED BY <2>1
  <1>3. PICK H \in Closed : \A K \in Closed : ~(<<K, H>> \in StrictSubsetOrdering(Upload))
    <2> HIDE DEF Closed
    <2> QED BY <1>1, <1>2, WFMin
  <1> DEFINE waited == {w \in H : \E v \in H : WaitsFor(v, w)}
  <1>4. waited \in Closed
    <2>1. PICK u \in H : TRUE OBVIOUS
    <2>2. waited # {}
      <3>1. PICK v \in H : WaitsFor(u, v) OBVIOUS
      <3> QED BY <3>1
    <2>3. \A w \in waited : \E v \in waited : WaitsFor(w, v) OBVIOUS
    <2> QED BY <2>2, <2>3
  <1>5. waited = H
    <2>1. waited \in SUBSET Upload /\ H \in SUBSET Upload /\ waited \subseteq H OBVIOUS
    <2>2. ~(<<waited, H>> \in StrictSubsetOrdering(Upload)) BY <1>3, <1>4
    <2> QED BY <2>1, <2>2 DEF StrictSubsetOrdering
  <1>6. PICK u \in H : TRUE OBVIOUS
  <1>7. H \in SUBSET Upload /\ u \in G OBVIOUS
  <1>8. \A v \in H : (\E w \in H : WaitsFor(v, w)) /\ (\E w \in H : WaitsFor(w, v)) BY <1>5
  <1>9. Deadlocked(u) BY <1>6, <1>7, <1>8 DEF Deadlocked
  <1> QED BY <1>7, <1>9

(* The only way in which uploads of any workbooks can hold each other up is *)
(* a deadlock the database finds and ends: an upload that has ended blocks  *)
(* nobody, and who waits, waits for one that is still inserting.            *)
THEOREM UploadsBlockedOnlyByDeadlocks == Spec => []OnlyDeadlocksBlock
  <1>1. UInv => OnlyDeadlocksBlock
    <2> SUFFICES ASSUME UInv, NEW G \in SUBSET Upload,
                        \A u \in G : Ended(u) \/ \E v \in G : WaitsFor(u, v),
                        NEW z \in G, ~Ended(z)
                 PROVE  \E u \in G : Deadlocked(u)
      BY DEF OnlyDeadlocksBlock
    <2> DEFINE H == {u \in G : ~Ended(u)}
    <2>1. ASSUME NEW u \in H PROVE \E v \in H : WaitsFor(u, v)
      <3>1. PICK v \in G : WaitsFor(u, v) OBVIOUS
      <3>2. inserted[v] # {} BY <3>1 DEF WaitsFor
      <3>3. ~Ended(v) BY <3>2 DEF UInv, Progress, Ended
      <3> QED BY <3>1, <3>3
    <2>2. H \in SUBSET Upload /\ H # {} /\ H \subseteq G OBVIOUS
    <2> HIDE DEF H
    <2> QED BY <2>1, <2>2, CircleIn
  <1> QED BY <1>1, UInvAlways, PTL
=============================================================================
