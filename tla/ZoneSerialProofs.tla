-------------------------- MODULE ZoneSerialProofs --------------------------
(***************************************************************************)
(* Proofs about the SOA serial for every clock, every width, and every set *)
(* of records with the texts they may render to.                           *)
(***************************************************************************)
EXTENDS ZoneSerial, TLAPS

\* nextSerial returns a serial in range that is greater than the previous one
\* whatever the clock says, unless the previous one is the largest.
LEMMA NextSerialAdvances ==
  ASSUME NEW p \in Serials, NEW d \in Days
  PROVE  /\ nextSerial(p, d) \in Serials
         /\ nextSerial(p, d) # NoSerial
         /\ nextSerial(p, d) > p \/ p = MaxSerial
<1>1. Candidate(d) \in Nat /\ Candidate(d) >= 1 /\ Candidate(d) <= MaxSerial
  BY SerialAssumption DEF Candidate
<1> QED
  BY <1>1, SerialAssumption DEF nextSerial, Serials, NoSerial

\* A record set renders to at least one text, and only to texts of its own.
LEMMA TextsOfRecords ==
  ASSUME NEW set \in Records
  PROVE  DeduplicateAndSort(set) \subseteq Bodies /\ DeduplicateAndSort(set) # {}
BY SerialAssumption DEF DeduplicateAndSort

\* A render has a serial in range.
LEMMA RenderTypes ==
  ASSUME NEW set \in Records, NEW d \in Days, NEW r \in Renders
  PROVE  /\ RenderZone(set, d, r) \subseteq Drafts
         /\ failedResult(r) \in Drafts
<1>1. ASSUME NEW text \in DeduplicateAndSort(set)
      PROVE  [serial |-> IF r.serial = NoSerial \/ text # r.hash
                         THEN nextSerial(r.serial, d) ELSE r.serial,
              hash   |-> text,
              held   |-> FALSE] \in Drafts
  <2>1. text \in Bodies /\ r.serial \in Serials
    BY <1>1, TextsOfRecords DEF Renders
  <2>2. nextSerial(r.serial, d) \in Serials
    BY <2>1, NextSerialAdvances
  <2> QED
    BY <2>1, <2>2 DEF Drafts
<1>2. failedResult(r) \in Drafts
  BY DEF failedResult, Drafts, Renders
<1> QED
  BY <1>1, <1>2 DEF RenderZone

\* The records of a blank reconcile are well formed.
LEMMA BlankRenders == NoRender \in Renders /\ NoDraft \in Drafts
BY SerialAssumption DEF NoRender, NoDraft, Renders, Drafts, Serials, NoSerial

\* Every step keeps the types: in particular no serial leaves its 32 bits.
LEMMA SerialTypeStep == TypeOK /\ [Next]_vars => TypeOK'
<1> SUFFICES ASSUME TypeOK, [Next]_vars PROVE TypeOK'
  OBVIOUS
<1>1. CASE Render
  BY <1>1, RenderTypes DEF Render, TypeOK, env
<1>2. CASE Commit
  BY <1>2 DEF Commit, TypeOK, env, Drafts, Renders
<1>3. CASE WriteStatus
  <2>1. Patched \in Renders
    BY DEF Patched, TypeOK, Renders, Drafts
  <2> QED
    BY <1>3, <2>1, BlankRenders DEF WriteStatus, EndReconcile, TypeOK, env
<1>4. CASE Sync
  BY <1>4 DEF Sync, TypeOK, env
<1>5. CASE Interrupt
  BY <1>5, BlankRenders DEF Interrupt, EndReconcile, TypeOK, env
<1>6. CASE Reload
  BY <1>6 DEF Reload, TypeOK, env
<1>7. CASE EditRecords
  BY <1>7 DEF EditRecords, TypeOK
<1>8. CASE Tick
  BY <1>8 DEF Tick, TypeOK
<1>9. CASE UNCHANGED vars
  BY <1>9 DEF vars, TypeOK
<1> QED
  BY <1>1, <1>2, <1>3, <1>4, <1>5, <1>6, <1>7, <1>8, <1>9
     DEF Next, Operator, Environment

\* Serials stay within 32 bits, interruptions and stale reads included.
THEOREM SerialTypeCorrect == Spec => []TypeOK
<1>1. Init => TypeOK
  BY BlankRenders DEF Init, TypeOK
<1> QED
  BY <1>1, SerialTypeStep, PTL DEF Spec

-----------------------------------------------------------------------------

\* SerialInv is inductive.
LEMMA SerialInvStep ==
  ASSUME TypeOK, SerialInv, [Next]_vars
  PROVE  SerialInv'
<1> USE DEF Running
<1>1. CASE Render
  <2> SUFFICES ASSUME ~lost, cache = status PROVE SerialInv'
    BY <1>1 DEF Render, SerialInv
  <2>1. CASE valid
    <3>1. PICK text \in DeduplicateAndSort(records) :
            draft' = [serial |-> IF status.serial = NoSerial \/ text # status.hash
                                 THEN nextSerial(status.serial, day)
                                 ELSE status.serial,
                      hash   |-> text,
                      held   |-> FALSE]
      BY <1>1, <2>1 DEF Render, RenderZone
    <3>2. /\ text \in Bodies /\ day \in Days /\ status.serial \in Serials
          /\ status.hash = text => status.serial # NoSerial
      BY SerialAssumption, TextsOfRecords DEF TypeOK, Renders, SerialInv
    <3>3. /\ draft'.hash = text /\ ~draft'.held
          /\ draft'.serial # NoSerial
          /\ IF text = status.hash THEN draft'.serial = status.serial
             ELSE draft'.serial > status.serial \/ status.serial = MaxSerial
      BY <3>1, <3>2, NextSerialAdvances
    <3>4. listed' = records /\ records \in Records
      BY <1>1 DEF Render, TypeOK
    <3> QED
      BY <1>1, <3>3, <3>4 DEF Render, SerialInv, env
  <2>2. CASE ~valid
    BY <1>1, <2>2 DEF Render, SerialInv, failedResult, env, TypeOK
  <2> QED
    BY <2>1, <2>2
<1>2. CASE Commit
  <2> SUFFICES ASSUME ~lost PROVE SerialInv'
    BY <1>2 DEF Commit, SerialInv
  <2>1. CASE draft.held
    <3>1. file = status /\ status = [serial |-> draft.serial, hash |-> draft.hash]
      BY <1>2, <2>1 DEF Commit, SerialInv, TypeOK, Renders
    <3> QED
      BY <1>2, <2>1, <3>1 DEF Commit, SerialInv, env
  <2>2. CASE ~draft.held
    BY <1>2, <2>2 DEF Commit, SerialInv, env
  <2> QED
    BY <2>1, <2>2
<1>3. CASE WriteStatus
  <2> SUFFICES ASSUME ~lost PROVE SerialInv'
    BY <1>3 DEF WriteStatus, SerialInv
  <2>1. Patched = [serial |-> draft.serial, hash |-> draft.hash]
    BY <1>3 DEF WriteStatus, Patched, SerialInv
  <2>2. status' = file /\ file' = file /\ pc' = "idle"
    BY <1>3, <2>1 DEF WriteStatus, SerialInv, EndReconcile
  <2>3. file.serial = NoSerial => file.hash = NoBody
    BY <1>3 DEF WriteStatus, SerialInv
  <2>4. /\ file.hash # NoBody => origin \in Records
        /\ origin \in Records => file.hash \in DeduplicateAndSort(origin)
        /\ origin' = origin
    BY <1>3 DEF WriteStatus, SerialInv
  <2> QED
    BY <2>2, <2>3, <2>4 DEF SerialInv
<1>4. CASE Sync
  BY <1>4 DEF Sync, SerialInv
<1>5. CASE Interrupt
  BY <1>5 DEF Interrupt, EndReconcile, SerialInv
<1>6. CASE Reload
  BY <1>6 DEF Reload, SerialInv
<1>7. CASE EditRecords
  BY <1>7 DEF EditRecords, SerialInv
<1>8. CASE Tick
  BY <1>8 DEF Tick, SerialInv
<1>9. CASE UNCHANGED vars
  BY <1>9 DEF vars, SerialInv
<1> QED
  BY <1>1, <1>2, <1>3, <1>4, <1>5, <1>6, <1>7, <1>8, <1>9
     DEF Next, Operator, Environment

\* SerialInv holds in every reachable state: until a reconcile ends between the
\* commit and the status, or reads an outdated status, status and file agree
\* between reconciles and a render repeats or outnumbers the published serial.
THEOREM SerialInvHolds == Spec => [](TypeOK /\ SerialInv)
<1>1. Init => TypeOK /\ SerialInv
  <2>1. Init => TypeOK
    BY BlankRenders DEF Init, TypeOK
  <2>2. Init => SerialInv
    BY SerialAssumption DEF Init, SerialInv, Running, NoRender
  <2> QED
    BY <2>1, <2>2
<1>2. TypeOK /\ SerialInv /\ [Next]_vars => (TypeOK /\ SerialInv)'
  BY SerialInvStep, SerialTypeStep
<1> QED
  BY <1>1, <1>2, PTL DEF Spec

\* Unless a serial was lost, the serial grows with every change of the records,
\* however the clock moves.
THEOREM SerialAlwaysAdvances == Spec => SerialAdvances
<1>1. ASSUME TypeOK, SerialInv, [Next]_vars
      PROVE  [~lost /\ file'.hash # file.hash =>
                file'.serial > file.serial \/ file.serial = MaxSerial]_vars
  <2>1. CASE Commit
    BY <1>1, <2>1 DEF Commit, SerialInv, Running
  <2>2. CASE file' = file
    BY <2>2
  <2> QED
    BY <1>1, <2>1, <2>2 DEF Next, Operator, Environment, Render, WriteStatus, Sync,
       Interrupt, Reload, EditRecords, Tick, vars
<1> QED
  BY <1>1, SerialInvHolds, PTL DEF Spec, SerialAdvances

\* Under the same condition a file rendered again from the records it has keeps
\* text and serial, if those records have one text.
THEOREM SerialAlwaysStaysPut == Spec => SerialStaysPut
<1>1. ASSUME TypeOK, SerialInv, [Next]_vars
      PROVE  [~lost /\ origin' = origin /\ origin \in Records /\ HasOneText(origin) =>
                file' = file]_vars
  <2>1. CASE Commit
    <3> SUFFICES ASSUME ~lost, origin' = origin, origin \in Records,
                        HasOneText(origin)
                 PROVE  file' = file
      OBVIOUS
    <3>1. file = status
      BY <1>1, <2>1 DEF Commit, SerialInv
    <3>2. CASE draft.held
      BY <2>1, <3>2 DEF Commit
    <3>3. CASE ~draft.held
      <4>1. listed = origin
        BY <2>1, <3>3 DEF Commit
      <4>2. draft.hash = file.hash
        BY <1>1, <2>1, <3>3, <4>1 DEF Commit, SerialInv, Running, HasOneText
      <4>3. draft.serial = status.serial
        BY <1>1, <2>1, <3>1, <3>3, <4>2 DEF Commit, SerialInv, Running
      <4>4. file = [serial |-> file.serial, hash |-> file.hash]
        BY <1>1 DEF TypeOK, Renders
      <4> QED
        BY <2>1, <3>1, <3>3, <4>2, <4>3, <4>4 DEF Commit
    <3> QED
      BY <3>2, <3>3
  <2>2. CASE file' = file
    BY <2>2
  <2> QED
    BY <1>1, <2>1, <2>2 DEF Next, Operator, Environment, Render, WriteStatus, Sync,
       Interrupt, Reload, EditRecords, Tick, vars
<1> QED
  BY <1>1, SerialInvHolds, PTL DEF Spec, SerialStaysPut
=============================================================================
