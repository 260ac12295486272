-------------------------- MODULE Resources_proofs ---------------------------
(***************************************************************************)
(* Proofs about Resources for every set of browsers, every table and every *)
(* interval.  ResourcesInv is inductive; that no editing collision goes    *)
(* unnoticed and that stamps only grow follow from it.  With Numbered, and *)
(* ranks counted by the theorems on finite sets, so does that a completed  *)
(* renumbering has numbered every row in the order of display.             *)
(***************************************************************************)
EXTENDS Resources, TLAPS, FiniteSetTheorems

USE ResourcesAssumption

Step(p) ==
  \/ Display(p) \/ Redisplay(p) \/ Post(p) \/ EnterModify(p) \/ Compare(p)
  \/ Update(p) \/ Leave(p) \/ Insert(p) \/ BeginRenumber(p) \/ SelectIndices(p)
  \/ RenumberRow(p) \/ EndRenumber(p) \/ Die(p)

LEMMA FirstRow == FirstRows[1] \in Fields
OBVIOUS

LEMMA InvInit == Init => ResourcesInv
<1> SUFFICES ASSUME Init PROVE ResourcesInv
  OBVIOUS
<1>1. size \in 1..MaxRows /\ \A r \in 1..size : FirstRows[r] \in Fields
  BY DEF Init
<1>2. rscs \in [1..size -> Record] /\ rscs[1] \in Record
  BY <1>1 DEF Init, Record
<1>3. TypeOK
  BY <1>1, <1>2, FirstRow DEF Init, TypeOK
<1>4. \A p \in Proc : pc[p] = "idle"
  BY DEF Init
<1>5. StampsHandedOut
  BY <1>1, <1>4 DEF Init, StampsHandedOut, Editing
<1>6. OneInSection /\ StampTellsRow /\ UpdateJustified
  BY <1>4 DEF OneInSection, StampTellsRow, UpdateJustified, InSection, HasForm,
              Editing, Renumbering
<1>7. QED
  BY <1>3, <1>5, <1>6 DEF ResourcesInv
-----------------------------------------------------------------------------
LEMMA TypeStep ==
  ASSUME ResourcesInv, NEW p \in Proc, Step(p)
  PROVE  TypeOK'
<1> USE DEF ResourcesInv, TypeOK, form, GoTo, Editing, Renumbering
<1>1. CASE Display(p)
  <2>1. PICK r \in 1..size :
          /\ idx' = [idx EXCEPT ![p] = r]
          /\ hidden' = [hidden EXCEPT ![p] = rscs[r].crmodsguid]
          /\ shown' = [shown EXCEPT ![p] = rscs[r]]
    BY <1>1 DEF Display
  <2>2. rscs[r] \in Record /\ rscs[r].crmodsguid \in Nat /\ r \in 0..MaxRows
    BY DEF Record
  <2>3. /\ idx' \in [Proc -> 0..MaxRows]
        /\ hidden' \in [Proc -> Nat]
        /\ shown' \in [Proc -> Record]
    BY <2>1, <2>2
  <2>4. QED
    BY <1>1, <2>3 DEF Display
<1>2. CASE Redisplay(p)
  BY <1>2 DEF Redisplay, RedisplayedStamp
<1>3. CASE Post(p)
  BY <1>3 DEF Post
<1>4. CASE EnterModify(p)
  BY <1>4 DEF EnterModify, Lock!Acquire
<1>5. CASE Compare(p)
  BY <1>5 DEF Compare
<1>6. CASE Update(p)
  BY <1>6 DEF Update, CommitStamp, Record
<1>7. CASE Leave(p)
  BY <1>7, FirstRow DEF Leave, Lock!Release, ForgetScript
<1>8. CASE Insert(p)
  BY SMTT(30), <1>8 DEF Insert, Record
<1>9. CASE BeginRenumber(p)
  BY <1>9 DEF BeginRenumber, EnterRenumber, Lock!Acquire
<1>10. CASE SelectIndices(p)
  BY <1>10 DEF SelectIndices
<1>11. CASE RenumberRow(p)
  <2> DEFINE t == indices[p][idx[p]]
             row(r) == [fields |-> [r.fields EXCEPT !.disporder = NewNumber(idx[p])],
                        crmodsguid |-> RenumberStamp(p)]
  <2>1. NewNumber(idx[p]) \in Nat
    <3>1. \A i, j \in Nat : i * j \in Nat
      OBVIOUS
    <3>2. QED
      BY <3>1 DEF NewNumber
  <2>2. ASSUME NEW r \in Record PROVE row(r) \in Record
    <3>1. r.fields \in Fields
      BY DEF Record
    <3>2. [r.fields EXCEPT !.disporder = NewNumber(idx[p])] \in Fields
      BY <2>1, <3>1 DEF Fields
    <3>3. RenumberStamp(p) \in Nat
      BY DEF RenumberStamp
    <3>4. QED
      BY <3>2, <3>3 DEF Record
  <2>3. rscs' = [rscs EXCEPT ![t] = row(@)]
    BY <1>11 DEF RenumberRow
  <2>4. rscs' \in [1..size -> Record]
    <3> HIDE DEF row, t
    <3>1. QED
      BY <2>2, <2>3
  <2>5. /\ idx[p] > 0 /\ idx' = [idx EXCEPT ![p] = idx[p] - 1]
        /\ sguids' = sguids + 1
        /\ UNCHANGED <<size, owner, pc, hidden, shown, posted, new>>
    BY <1>11 DEF RenumberRow
  <2>6. idx' \in [Proc -> 0..MaxRows]
    <3>1. idx[p] \in 0..MaxRows /\ idx[p] - 1 \in 0..MaxRows
      BY <2>5
    <3>2. QED
      BY <2>5, <3>1
  <2>7. QED
    BY <2>4, <2>5, <2>6
<1>12. CASE EndRenumber(p)
  BY <1>12 DEF EndRenumber
<1>13. CASE Die(p)
  BY <1>13, FirstRow DEF Die, ForgetScript
<1>14. QED
  BY <1>1, <1>2, <1>3, <1>4, <1>5, <1>6, <1>7, <1>8, <1>9, <1>10, <1>11, <1>12,
     <1>13 DEF Step

\* Steps that change no row, no form and no SGUID preserve what is said of them.
LEMMA FormsKeep ==
  ASSUME ResourcesInv, TypeOK', NEW p \in Proc,
         UNCHANGED <<rscs, size, sguids, hidden, shown>>,
         idx'[p] = idx[p] \/ ~HasForm(p)',
         new'[p] = new[p] \/ pc'[p] \notin Editing,
         HasForm(p)' => HasForm(p),
         pc'[p] \in Editing => pc[p] \in Editing,
         \A q \in Proc : q # p => pc'[q] = pc[q] /\ idx'[q] = idx[q] /\ new'[q] = new[q]
  PROVE  (StampTellsRow /\ StampsHandedOut)'
<1>1. StampTellsRow'
  BY DEF ResourcesInv, StampTellsRow, HasForm
<1>2. StampsHandedOut'
  BY DEF ResourcesInv, StampsHandedOut
<1>3. QED
  BY <1>1, <1>2

LEMMA InvStep ==
  ASSUME ResourcesInv, TypeOK', NEW p \in Proc, Step(p)
  PROVE  ResourcesInv'
<1> USE DEF form, GoTo, Editing, Renumbering
<1> DEFINE Inside == {"compare", "update", "leave"} \cup Renumbering
<1>0. TypeOK /\ OneInSection /\ StampTellsRow /\ StampsHandedOut /\ UpdateJustified
  BY DEF ResourcesInv
<1>1. CASE Display(p)
  <2>1. PICK r \in 1..size :
          /\ idx' = [idx EXCEPT ![p] = r]
          /\ hidden' = [hidden EXCEPT ![p] = rscs[r].crmodsguid]
          /\ shown' = [shown EXCEPT ![p] = rscs[r]]
    BY <1>1 DEF Display
  <2>2. /\ pc' = [pc EXCEPT ![p] = "form"]
        /\ UNCHANGED <<rscs, size, owner, sguids, new>>
    BY <1>1 DEF Display
  <2>3. StampTellsRow'
    BY SMTT(30), <1>0, <2>1, <2>2 DEF StampTellsRow, HasForm, TypeOK, Record
  <2>4. StampsHandedOut'
    BY <1>0, <2>1, <2>2 DEF StampsHandedOut, TypeOK
  <2>5. OneInSection' /\ UpdateJustified'
    BY <1>0, <2>1, <2>2 DEF OneInSection, UpdateJustified, InSection, TypeOK
  <2>6. QED
    BY <2>3, <2>4, <2>5 DEF ResourcesInv
<1>2. CASE Redisplay(p)
  <2>1. hidden' = hidden /\ UNCHANGED <<rscs, size, owner, sguids, pc, idx, shown, new>>
    BY <1>0, <1>2 DEF Redisplay, RedisplayedStamp, TypeOK
  <2>2. QED
    BY <2>1 DEF ResourcesInv, OneInSection, StampTellsRow, StampsHandedOut,
                UpdateJustified, InSection, HasForm
<1>3. CASE Post(p)
  <2>1. /\ pc[p] = "form" /\ pc' = [pc EXCEPT ![p] = "posted"]
        /\ sguids' = sguids + 1
        /\ new' = [new EXCEPT ![p] = sguids + 1]
        /\ UNCHANGED <<rscs, size, owner, idx, hidden, shown>>
    BY <1>3 DEF Post
  <2>2. StampTellsRow'
    BY <1>0, <2>1 DEF StampTellsRow, HasForm, TypeOK
  <2>3. hidden[p] <= sguids
    BY <1>0, <2>1 DEF StampTellsRow, StampsHandedOut, HasForm, TypeOK, Record
  <2>4. StampsHandedOut'
    <3>1. sguids \in Nat /\ hidden[p] \in Nat
      BY <1>0 DEF TypeOK
    <3>2. ASSUME NEW r \in 1..size PROVE rscs[r].crmodsguid <= sguids + 1
      <4>1. rscs[r].crmodsguid \in Nat /\ rscs[r].crmodsguid <= sguids
        BY <1>0 DEF TypeOK, Record, StampsHandedOut
      <4>2. QED
        BY <3>1, <4>1
    <3>3. new'[p] = sguids + 1
      BY <1>0, <2>1 DEF TypeOK
    <3>4. hidden[p] < new'[p] /\ new'[p] <= sguids'
      BY <2>1, <2>3, <3>1, <3>3
    <3>5. ASSUME NEW q \in Proc, q # p, pc'[q] \in Editing
          PROVE  new'[q] <= sguids' /\ hidden[q] < new'[q]
      <4>1. new'[q] = new[q] /\ pc[q] \in Editing
        BY <1>0, <2>1, <3>5 DEF TypeOK
      <4>2. new[q] <= sguids /\ hidden[q] < new[q] /\ new[q] \in Nat
        BY <1>0, <4>1 DEF StampsHandedOut, TypeOK
      <4>3. QED
        BY <2>1, <3>1, <4>1, <4>2
    <3>6. QED
      BY <2>1, <3>2, <3>4, <3>5 DEF StampsHandedOut
  <2>5. OneInSection' /\ UpdateJustified'
    BY <1>0, <2>1 DEF OneInSection, UpdateJustified, InSection, TypeOK
  <2>6. QED
    BY <2>2, <2>4, <2>5 DEF ResourcesInv
<1>4. CASE EnterModify(p)
  <2>1. /\ pc[p] = "posted" /\ pc' = [pc EXCEPT ![p] = "compare"]
        /\ owner = None /\ owner' = p
        /\ UNCHANGED <<rscs, size, sguids, idx, hidden, shown, new>>
    BY <1>4 DEF EnterModify, Lock!Acquire
  <2>2. OneInSection' /\ UpdateJustified'
    BY <1>0, <2>1 DEF OneInSection, UpdateJustified, InSection, TypeOK
  <2>3. StampTellsRow' /\ StampsHandedOut'
    BY <1>0, <2>1, FormsKeep DEF HasForm, TypeOK
  <2>4. QED
    BY <2>2, <2>3 DEF ResourcesInv
<1>5. CASE Compare(p)
  <2>1. /\ pc[p] = "compare" /\ pc'[p] \in {"update", "leave"}
        /\ pc'[p] = "update" => rscs[idx[p]].crmodsguid = hidden[p]
        /\ \A q \in Proc : q # p => pc'[q] = pc[q]
        /\ UNCHANGED <<rscs, size, owner, sguids, idx, hidden, shown, new>>
    BY <1>0, <1>5 DEF Compare, Collides, TypeOK
  <2>2. OneInSection' /\ UpdateJustified'
    BY <1>0, <2>1 DEF OneInSection, UpdateJustified, InSection
  <2>3. StampTellsRow' /\ StampsHandedOut'
    BY <1>0, <2>1, FormsKeep DEF HasForm
  <2>4. QED
    BY <2>2, <2>3 DEF ResourcesInv
<1>6. CASE Update(p)
  <2> DEFINE row == [fields |-> posted[p], crmodsguid |-> new[p]]
  <2>1. /\ pc[p] = "update" /\ pc' = [pc EXCEPT ![p] = "leave"]
        /\ rscs' = [rscs EXCEPT ![idx[p]] = row]
        /\ UNCHANGED <<size, owner, sguids, idx, hidden, shown, new>>
    BY <1>6 DEF Update, CommitStamp
  <2>2. row.crmodsguid = new[p]
    OBVIOUS
  <2>3. /\ idx[p] \in 1..size
        /\ rscs[idx[p]].crmodsguid = hidden[p]
        /\ hidden[p] < new[p] /\ new[p] <= sguids
    BY <1>0, <2>1 DEF StampTellsRow, StampsHandedOut, UpdateJustified, HasForm
  <2> HIDE DEF row
  <2>4. StampTellsRow'
    <3> SUFFICES ASSUME NEW q \in Proc, HasForm(q)'
                 PROVE  /\ idx[q] \in 1..size
                        /\ hidden[q] = shown[q].crmodsguid
                        /\ rscs'[idx[q]].crmodsguid >= hidden[q]
                        /\ rscs'[idx[q]].crmodsguid = hidden[q]
                             => rscs'[idx[q]] = shown[q]
      BY <2>1 DEF StampTellsRow
    <3>1. HasForm(q)
      BY <1>0, <2>1 DEF HasForm, TypeOK
    <3>2. /\ idx[q] \in 1..size
          /\ hidden[q] = shown[q].crmodsguid
          /\ rscs[idx[q]].crmodsguid >= hidden[q]
          /\ rscs[idx[q]].crmodsguid = hidden[q] => rscs[idx[q]] = shown[q]
      BY <1>0, <3>1 DEF StampTellsRow
    <3>3. CASE idx[q] = idx[p]
      <4>1. rscs'[idx[q]].crmodsguid = new[p]
        BY <1>0, <2>1, <2>2, <2>3, <3>3 DEF TypeOK
      <4>2. hidden[q] \in Nat /\ new[p] \in Nat /\ hidden[p] \in Nat
        BY <1>0 DEF TypeOK
      <4>3. QED
        BY <2>3, <3>2, <3>3, <4>1, <4>2
    <3>4. CASE idx[q] # idx[p]
      BY <1>0, <2>1, <3>2, <3>4 DEF TypeOK
    <3>5. QED
      BY <3>3, <3>4
  <2>5. StampsHandedOut'
    BY <1>0, <2>1, <2>2, <2>3 DEF StampsHandedOut, TypeOK
  <2>6. OneInSection'
    BY <1>0, <2>1 DEF OneInSection, InSection, TypeOK
  <2>7. UpdateJustified'
    BY <1>0, <2>1 DEF UpdateJustified, OneInSection, InSection, TypeOK
  <2>8. QED
    BY <2>4, <2>5, <2>6, <2>7 DEF ResourcesInv
<1>7. CASE Leave(p)
  <2>1. /\ pc[p] \in {"leave", "renumbered"} /\ owner = p /\ owner' = None
        /\ pc' = [pc EXCEPT ![p] = IF pc[p] = "leave" THEN "form" ELSE "idle"]
        /\ idx' = [idx EXCEPT ![p] = IF pc[p] \in Editing THEN @ ELSE 1]
        /\ new' = [new EXCEPT ![p] = 0]
        /\ UNCHANGED <<rscs, size, sguids, hidden, shown>>
    BY <1>7 DEF Leave, Lock!Release, ForgetScript
  <2>2. OneInSection' /\ UpdateJustified'
    BY <1>0, <2>1 DEF OneInSection, UpdateJustified, InSection, TypeOK
  <2>3. StampTellsRow' /\ StampsHandedOut'
    BY <1>0, <2>1, FormsKeep DEF HasForm, TypeOK
  <2>4. QED
    BY <2>2, <2>3 DEF ResourcesInv
<1>8. CASE Insert(p)
  <2>1. /\ size' = size + 1 /\ sguids' = sguids + 1 /\ rscs'[size + 1].crmodsguid = sguids + 1
        /\ \A r \in 1..size : rscs'[r] = rscs[r]
        /\ UNCHANGED <<owner, pc, idx, hidden, shown, new>>
    BY SMTT(30), <1>0, <1>8 DEF Insert, TypeOK
  <2>2. StampTellsRow'
    BY SMTT(30), <1>0, <2>1 DEF StampTellsRow, HasForm, TypeOK
  <2>3. StampsHandedOut'
    <3>1. \A r \in 1..size' : r = size + 1 \/ r \in 1..size
      BY <1>0, <2>1 DEF TypeOK
    <3>2. \A r \in 1..size : rscs[r].crmodsguid \in Nat /\ rscs[r].crmodsguid <= sguids
      BY <1>0 DEF TypeOK, Record, StampsHandedOut
    <3>3. \A r \in 1..size' : rscs'[r].crmodsguid <= sguids'
      BY SMTT(30), <1>0, <2>1, <3>1, <3>2 DEF TypeOK
    <3>4. \A q \in Proc : pc'[q] \in Editing => new'[q] <= sguids' /\ hidden'[q] < new'[q]
      BY <1>0, <2>1 DEF StampsHandedOut, TypeOK
    <3>5. QED
      BY <3>3, <3>4 DEF StampsHandedOut
  <2>4. OneInSection'
    BY <1>0, <2>1 DEF OneInSection, InSection
  <2>5. UpdateJustified'
    BY <1>0, <2>1 DEF UpdateJustified, StampTellsRow, HasForm
  <2>6. QED
    BY <2>2, <2>3, <2>4, <2>5 DEF ResourcesInv
<1>9. CASE BeginRenumber(p)
  <2>1. /\ pc[p] = "idle" /\ pc' = [pc EXCEPT ![p] = "select"]
        /\ owner = None /\ owner' = p
        /\ UNCHANGED <<rscs, size, sguids, idx, hidden, shown, new>>
    BY <1>9 DEF BeginRenumber, EnterRenumber, Lock!Acquire
  <2>2. OneInSection' /\ UpdateJustified'
    BY <1>0, <2>1 DEF OneInSection, UpdateJustified, InSection, TypeOK
  <2>3. StampTellsRow' /\ StampsHandedOut'
    BY <1>0, <2>1, FormsKeep DEF HasForm, TypeOK
  <2>4. QED
    BY <2>2, <2>3 DEF ResourcesInv
<1>10. CASE SelectIndices(p)
  <2>1. /\ pc[p] = "select" /\ pc' = [pc EXCEPT ![p] = "loop"]
        /\ idx' = [idx EXCEPT ![p] = size]
        /\ UNCHANGED <<rscs, size, owner, sguids, hidden, shown, new>>
    BY <1>10 DEF SelectIndices
  <2>2. OneInSection' /\ UpdateJustified'
    BY <1>0, <2>1 DEF OneInSection, UpdateJustified, InSection, TypeOK
  <2>3. StampTellsRow' /\ StampsHandedOut'
    BY <1>0, <2>1, FormsKeep DEF HasForm, TypeOK
  <2>4. QED
    BY <2>2, <2>3 DEF ResourcesInv
<1>11. CASE RenumberRow(p)
  <2>1. /\ pc[p] = "loop" /\ sguids' = sguids + 1
        /\ idx' = [idx EXCEPT ![p] = @ - 1]
        /\ UNCHANGED <<size, owner, pc, hidden, shown, new>>
    BY <1>11 DEF RenumberRow
  <2>2. \A r \in 1..size :
          rscs'[r] = rscs[r] \/ rscs'[r].crmodsguid = sguids + 1
    BY <1>0, <1>11 DEF RenumberRow, RenumberStamp, TypeOK
  <2>3. \A r \in 1..size : rscs[r].crmodsguid \in Nat /\ rscs[r].crmodsguid <= sguids
    BY <1>0 DEF TypeOK, Record, StampsHandedOut
  <2>4. StampsHandedOut'
    <3>1. ASSUME NEW r \in 1..size PROVE rscs'[r].crmodsguid <= sguids'
      <4>1. sguids \in Nat /\ rscs[r].crmodsguid \in Nat /\ rscs[r].crmodsguid <= sguids
        BY <1>0, <2>3 DEF TypeOK
      <4>2. CASE rscs'[r] = rscs[r]
        BY <2>1, <4>1, <4>2
      <4>3. CASE rscs'[r].crmodsguid = sguids + 1
        BY <2>1, <4>1, <4>3
      <4>4. QED
        BY <2>2, <4>2, <4>3
    <3>2. \A q \in Proc : pc'[q] \in Editing => new'[q] <= sguids' /\ hidden'[q] < new'[q]
      BY <1>0, <2>1 DEF StampsHandedOut, TypeOK
    <3>3. QED
      BY <2>1, <3>1, <3>2 DEF StampsHandedOut
  <2>5. OneInSection'
    BY <1>0, <2>1 DEF OneInSection, InSection
  <2>6. \A q \in Proc : pc[q] # "update"
    BY <1>0, <2>1 DEF OneInSection, InSection
  <2>7. UpdateJustified'
    BY <2>1, <2>6 DEF UpdateJustified
  <2>8. StampTellsRow'
    <3> SUFFICES ASSUME NEW q \in Proc, HasForm(q)
                 PROVE  /\ idx'[q] \in 1..size
                        /\ hidden[q] = shown[q].crmodsguid
                        /\ rscs'[idx'[q]].crmodsguid >= hidden[q]
                        /\ rscs'[idx'[q]].crmodsguid = hidden[q]
                             => rscs'[idx'[q]] = shown[q]
      BY <2>1 DEF StampTellsRow, HasForm
    <3>1. q # p
      BY <2>1 DEF HasForm
    <3>2. idx'[q] = idx[q]
      BY <1>0, <2>1, <3>1 DEF TypeOK
    <3>3. /\ idx[q] \in 1..size
          /\ hidden[q] = shown[q].crmodsguid
          /\ rscs[idx[q]].crmodsguid >= hidden[q]
          /\ rscs[idx[q]].crmodsguid = hidden[q] => rscs[idx[q]] = shown[q]
      BY <1>0 DEF StampTellsRow
    <3>4. hidden[q] \in Nat /\ sguids \in Nat
      BY <1>0 DEF TypeOK
    <3>5. QED
      BY SMTT(30), <2>2, <2>3, <3>2, <3>3, <3>4
  <2>9. QED
    BY <2>4, <2>5, <2>7, <2>8 DEF ResourcesInv
<1>12. CASE EndRenumber(p)
  <2>1. /\ pc[p] = "loop" /\ pc' = [pc EXCEPT ![p] = "renumbered"]
        /\ UNCHANGED <<rscs, size, owner, sguids, idx, hidden, shown, new>>
    BY <1>12 DEF EndRenumber
  <2>2. OneInSection' /\ UpdateJustified'
    BY <1>0, <2>1 DEF OneInSection, UpdateJustified, InSection, TypeOK
  <2>3. StampTellsRow' /\ StampsHandedOut'
    BY <1>0, <2>1, FormsKeep DEF HasForm, TypeOK
  <2>4. QED
    BY <2>2, <2>3 DEF ResourcesInv
<1>13. CASE Die(p)
  <2>1. /\ pc[p] \in Editing \cup Renumbering
        /\ owner' = IF owner = p THEN None ELSE owner
        /\ pc' = [pc EXCEPT ![p] = IF pc[p] \in Editing THEN "form" ELSE "idle"]
        /\ idx' = [idx EXCEPT ![p] = IF pc[p] \in Editing THEN @ ELSE 1]
        /\ new' = [new EXCEPT ![p] = 0]
        /\ UNCHANGED <<rscs, size, sguids, hidden, shown>>
    BY <1>13 DEF Die, ForgetScript
  <2>2. OneInSection' /\ UpdateJustified'
    BY <1>0, <2>1 DEF OneInSection, UpdateJustified, InSection, TypeOK
  <2>3. StampTellsRow' /\ StampsHandedOut'
    BY <1>0, <2>1, FormsKeep DEF HasForm, TypeOK
  <2>4. QED
    BY <2>2, <2>3 DEF ResourcesInv
<1>14. QED
  BY <1>1, <1>2, <1>3, <1>4, <1>5, <1>6, <1>7, <1>8, <1>9, <1>10, <1>11, <1>12,
     <1>13 DEF Step

LEMMA NextInv == ResourcesInv /\ [Next]_vars => ResourcesInv'
<1> SUFFICES ASSUME ResourcesInv, [Next]_vars PROVE ResourcesInv'
  OBVIOUS
<1>1. CASE UNCHANGED vars
  BY <1>1 DEF vars, form, ResourcesInv, TypeOK, OneInSection, StampTellsRow,
              StampsHandedOut, UpdateJustified, InSection, HasForm
<1>2. ASSUME NEW p \in Proc, Step(p) PROVE ResourcesInv'
  BY <1>2, TypeStep, InvStep
<1>3. QED
  BY <1>1, <1>2 DEF Next, Step

\* The inductive invariant: types, one process per critical section, a stamp in a
\* form that still equals the row's means that the row is as it was shown.
THEOREM ResourcesInvHolds == Spec => []ResourcesInv
<1>1. QED
  BY InvInit, NextInv, PTL DEF Spec

\* A commit replaces exactly the row its user was shown (RSCS_modify_record).
THEOREM EditingCollisionsDetected == Spec => NoLostUpdate
<1>1. ResourcesInv /\ [Next]_vars =>
        [\A p \in Proc : pc[p] = "update" /\ pc'[p] = "leave" =>
           rscs[idx[p]] = shown[p]]_vars
  BY DEF ResourcesInv, UpdateJustified, StampTellsRow, HasForm, Editing
<1>2. QED
  BY <1>1, ResourcesInvHolds, PTL DEF Spec, NoLostUpdate

\* A row changes only inside a critical section, and its stamp then grows.
THEOREM CrmodsguidGrows == Spec => StampsGrow
<1> DEFINE Grows == \A r \in 1..size : rscs'[r] # rscs[r] =>
             owner # None /\ rscs'[r].crmodsguid > rscs[r].crmodsguid
<1>1. ASSUME ResourcesInv, [Next]_vars PROVE [Grows]_vars
  <2> USE <1>1 DEF ResourcesInv
  <2>1. ASSUME NEW p \in Proc, Update(p) PROVE Grows
    <3>1. /\ owner = p
          /\ rscs[idx[p]].crmodsguid = hidden[p] /\ hidden[p] < new[p]
      BY <2>1 DEF Update, OneInSection, InSection, UpdateJustified, StampsHandedOut,
                  Editing
    <3>2. \A r \in 1..size : rscs'[r] # rscs[r] =>
            r = idx[p] /\ rscs'[r].crmodsguid = new[p]
      BY <2>1 DEF Update, CommitStamp, TypeOK
    <3>3. hidden[p] \in Nat /\ new[p] \in Nat
      BY DEF TypeOK
    <3>4. QED
      BY <3>1, <3>2, <3>3
  <2>2. ASSUME NEW p \in Proc, RenumberRow(p) PROVE Grows
    <3>1. owner = p
      BY <2>2 DEF RenumberRow, OneInSection, InSection, Renumbering
    <3>2. \A r \in 1..size : rscs'[r] # rscs[r] => rscs'[r].crmodsguid = sguids + 1
      BY <2>2 DEF RenumberRow, RenumberStamp, TypeOK
    <3>3. \A r \in 1..size : rscs[r].crmodsguid \in Nat /\ rscs[r].crmodsguid <= sguids
      BY DEF TypeOK, Record, StampsHandedOut
    <3>4. sguids \in Nat
      BY DEF TypeOK
    <3>5. QED
      BY <3>1, <3>2, <3>3, <3>4
  <2>3. ASSUME NEW p \in Proc, Insert(p) PROVE Grows
    BY <2>3 DEF Insert, TypeOK
  <2>4. CASE rscs' = rscs
    BY <2>4
  <2>5. QED
    BY <1>1, <2>1, <2>2, <2>3, <2>4
       DEF Next, vars, form, Display, Redisplay, Post, EnterModify, Compare, Leave,
           BeginRenumber, SelectIndices, EndRenumber, Die
<1>2. QED
  BY <1>1, ResourcesInvHolds, PTL DEF Spec, StampsGrow, Grows
-----------------------------------------------------------------------------
\* The display order.  Precedes is a strict total order on the rows, so ranks run
\* through 1..size, each once.
LEMMA OrderIsStrict ==
  ASSUME TypeOK, NEW r \in 1..size, NEW s \in 1..size, NEW t \in 1..size
  PROVE  /\ ~Precedes(r, r)
         /\ r # s => Precedes(r, s) \/ Precedes(s, r)
         /\ Precedes(r, s) /\ Precedes(s, t) => Precedes(r, t)
<1>1. ASSUME NEW u \in 1..size
      PROVE  rscs[u].fields.disporder \in Nat /\ rscs[u].fields.status \in {0, 1}
  BY SMTT(30) DEF TypeOK, Record, Fields, Status
<1>2. QED
  BY <1>1 DEF Precedes

Before(r) == {s \in 1..size : Precedes(s, r)}

LEMMA BeforeFinite ==
  ASSUME TypeOK, NEW r \in 1..size
  PROVE  /\ IsFiniteSet(1..size) /\ Cardinality(1..size) = size
         /\ IsFiniteSet(Before(r)) /\ Cardinality(Before(r)) \in 0..(size - 1)
         /\ Rank(r) = 1 + Cardinality(Before(r))
<1>1. size \in Nat \ {0}
  BY DEF TypeOK
<1>2. IsFiniteSet(1..size) /\ Cardinality(1..size) = size
  BY <1>1, FS_Interval
<1>3. IsFiniteSet((1..size) \ {r}) /\ Cardinality((1..size) \ {r}) = size - 1
  BY ZenonT(60), <1>2, FS_RemoveElement
<1>4. Before(r) \in SUBSET ((1..size) \ {r})
  BY OrderIsStrict DEF Before
<1>5. IsFiniteSet(Before(r)) /\ Cardinality(Before(r)) <= size - 1
  BY <1>3, <1>4, FS_Subset
<1>6. Cardinality(Before(r)) \in Nat
  BY <1>5, FS_CardinalityType
<1>7. QED
  BY <1>1, <1>2, <1>5, <1>6 DEF Rank, Before

LEMMA RankGrows ==
  ASSUME TypeOK, NEW r \in 1..size, NEW s \in 1..size, Precedes(r, s)
  PROVE  Rank(r) < Rank(s)
<1>1. Before(r) \in SUBSET Before(s)
  BY OrderIsStrict DEF Before
<1>2. r \in Before(s) /\ r \notin Before(r)
  BY OrderIsStrict DEF Before
<1>3. Cardinality(Before(r)) <= Cardinality(Before(s))
      /\ Cardinality(Before(r)) # Cardinality(Before(s))
  BY <1>1, <1>2, BeforeFinite, FS_Subset
<1>4. QED
  BY <1>3, BeforeFinite

LEMMA RankOnce ==
  ASSUME TypeOK, NEW r \in 1..size, NEW s \in 1..size, Rank(r) = Rank(s)
  PROVE  r = s
<1>1. Rank(r) \in Nat
  BY BeforeFinite
<1>2. QED
  BY <1>1, OrderIsStrict, RankGrows

\* An injection of the rows into themselves reaches every row.
LEMMA AllReached ==
  ASSUME TypeOK, NEW STATE f, f \in [1..size -> 1..size],
         \A j, k \in 1..size : f[j] = f[k] => j = k
  PROVE  \A r \in 1..size : \E k \in 1..size : f[k] = r
<1>1. f \in Injection(1..size, 1..size)
  BY DEF Injection, IsInjective
<1>2. IsFiniteSet(1..size)
  BY FS_Interval DEF TypeOK
<1>3. f \in Surjection(1..size, 1..size)
  BY <1>1, <1>2, FS_Injection
<1>4. QED
  BY <1>3 DEF Surjection

LEMMA DisplayOrder ==
  ASSUME TypeOK
  PROVE  /\ InDisplayOrder \in [1..size -> 1..size]
         /\ \A k \in 1..size : Rank(InDisplayOrder[k]) = k
<1> DEFINE f == [r \in 1..size |-> Rank(r)]
<1>1. f \in [1..size -> 1..size]
  <2>1. ASSUME NEW r \in 1..size PROVE Rank(r) \in 1..size
    <3>1. size \in Nat /\ Cardinality(Before(r)) \in 0..(size - 1)
      BY BeforeFinite DEF TypeOK
    <3>2. Rank(r) = 1 + Cardinality(Before(r))
      BY BeforeFinite
    <3>3. QED
      BY <3>1, <3>2
  <2>2. QED
    BY <2>1
<1>2. \A j, k \in 1..size : f[j] = f[k] => j = k
  BY RankOnce
<1>3. \A k \in 1..size : \E r \in 1..size : Rank(r) = k
  <2>1. \A k \in 1..size : \E r \in 1..size : f[r] = k
    <3> HIDE DEF f
    <3>1. QED
      BY <1>1, <1>2, AllReached
  <2>2. QED
    BY <2>1
<1>4. QED
  BY <1>3 DEF InDisplayOrder
-----------------------------------------------------------------------------
\* A renumbering under way: its list names every row once, and the rows that it has
\* passed have their new numbers.
NumberedAt(p) ==
  pc[p] \in {"loop", "renumbered"} =>
    /\ indices[p] \in [1..size -> 1..size]
    /\ \A j, k \in 1..size : indices[p][j] = indices[p][k] => j = k
    /\ idx[p] \in 0..size
    /\ \A k \in 1..size : k > idx[p] =>
         rscs[indices[p][k]].fields.disporder = k * Interval
    /\ pc[p] = "renumbered" => idx[p] = 0

Numbered ==
  /\ indices = [p \in Proc |-> indices[p]]
  /\ \A p \in Proc : NumberedAt(p)

LEMMA Multiples ==
  ASSUME NEW j \in Nat, NEW k \in Nat, j < k
  PROVE  j * Interval < k * Interval
<1>1. \A d, n \in Nat \ {0} : d * n > 0
  OBVIOUS
<1>2. (k - j) * Interval > 0
  BY <1>1
<1>3. (k - j) * Interval = k * Interval - j * Interval
  OBVIOUS
<1>4. j * Interval \in Int /\ k * Interval \in Int
  OBVIOUS
<1>5. QED
  BY <1>2, <1>3, <1>4

\* A list of the rows in which each precedes the next is their display order.
LEMMA ListInOrder ==
  ASSUME TypeOK
  PROVE  \A f \in [1..size -> 1..size] :
           /\ \A j, k \in 1..size : f[j] = f[k] => j = k
           /\ \A j, k \in 1..size : j < k => Precedes(f[j], f[k])
           => InDisplayOrder = f
<1> SUFFICES ASSUME NEW f \in [1..size -> 1..size],
                    \A j, k \in 1..size : f[j] = f[k] => j = k,
                    \A j, k \in 1..size : j < k => Precedes(f[j], f[k])
             PROVE  InDisplayOrder = f
  OBVIOUS
<1>0. size \in Nat \ {0} /\ \A k \in 1..size : f[k] \in 1..size
  <2>1. size \in Nat \ {0}
    BY DEF TypeOK
  <2>2. QED
    BY <2>1
<1>1. ASSUME NEW j \in 1..size, NEW k \in 1..size, j < k PROVE Precedes(f[j], f[k])
  BY <1>1
<1>2. ASSUME NEW k \in 1..size PROVE Rank(f[k]) = k
  <2> DEFINE g == [j \in 1..(k - 1) |-> f[j]]
  <2>0. /\ k - 1 \in Nat
        /\ \A j \in 1..(k - 1) : j \in 1..size /\ j < k
        /\ \A j \in 1..size : j < k => j \in 1..(k - 1)
    BY <1>0
  <2>1. Before(f[k]) = {f[j] : j \in 1..(k - 1)}
    <3>1. ASSUME NEW s \in Before(f[k]) PROVE s \in {f[j] : j \in 1..(k - 1)}
      <4>0. s \in 1..size /\ Precedes(s, f[k])
        BY <3>1 DEF Before
      <4>1. PICK j \in 1..size : f[j] = s
        BY <4>0, AllReached
      <4>2. j # k
        BY <1>0, <4>0, <4>1, OrderIsStrict
      <4>3. ~(k < j)
        <5>1. SUFFICES ASSUME k < j PROVE FALSE
          OBVIOUS
        <5>2. Precedes(f[k], f[j])
          BY <1>1, <5>1
        <5>3. QED
          BY <1>0, <4>0, <4>1, <5>2, OrderIsStrict
      <4>4. j < k
        BY <1>0, <4>2, <4>3
      <4>5. QED
        BY <2>0, <4>1, <4>4
    <3>2. ASSUME NEW j \in 1..(k - 1) PROVE f[j] \in Before(f[k])
      <4>1. j \in 1..size /\ j < k
        BY <2>0
      <4>2. Precedes(f[j], f[k])
        BY <1>1, <4>1
      <4>3. QED
        BY <1>0, <4>1, <4>2 DEF Before
    <3>3. QED
      BY <3>1, <3>2
  <2>2. g \in Bijection(1..(k - 1), Before(f[k]))
    <3>1. g \in [1..(k - 1) -> Before(f[k])]
      BY <2>1
    <3>2. \A a, b \in 1..(k - 1) : g[a] = g[b] => a = b
      BY <2>0
    <3>3. \A s \in Before(f[k]) : \E j \in 1..(k - 1) : g[j] = s
      BY <2>1
    <3> HIDE DEF g
    <3>4. QED
      BY <3>1, <3>2, <3>3 DEF Bijection, Injection, IsInjective, Surjection
  <2>3. ExistsBijection(1..(k - 1), Before(f[k])) /\ k - 1 \in Nat
    BY <2>0, <2>2 DEF ExistsBijection
  <2>4. Cardinality(Before(f[k])) = k - 1
    BY <2>3, FS_CountingElements
  <2>5. Rank(f[k]) = 1 + Cardinality(Before(f[k]))
    BY <1>0, BeforeFinite
  <2>6. QED
    BY <1>0, <2>4, <2>5
<1>3. ASSUME NEW k \in 1..size PROVE InDisplayOrder[k] = f[k]
  <2>1. InDisplayOrder[k] \in 1..size /\ Rank(InDisplayOrder[k]) = k
    BY DisplayOrder
  <2>2. f[k] \in 1..size /\ Rank(f[k]) = k
    BY <1>0, <1>2
  <2>3. QED
    BY <2>1, <2>2, RankOnce
<1>4. InDisplayOrder \in [1..size -> 1..size]
  BY DisplayOrder
<1>5. QED
  <2>1. \A k \in 1..size : InDisplayOrder[k] = f[k]
    BY <1>3
  <2>2. [k \in 1..size |-> InDisplayOrder[k]] = [k \in 1..size |-> f[k]]
    BY ONLY <2>1
  <2>3. InDisplayOrder = [k \in 1..size |-> InDisplayOrder[k]]
    BY ONLY <1>4
  <2>4. f = [k \in 1..size |-> f[k]]
    BY ONLY f \in [1..size -> 1..size]
  <2>5. QED
    BY ONLY <2>2, <2>3, <2>4

\* Rows that carry growing numbers in the order of a list are displayed in its order.
LEMMA NumberedInOrder ==
  ASSUME TypeOK
  PROVE  \A f \in [1..size -> 1..size], number \in [1..size -> Nat] :
           /\ \A j, k \in 1..size : f[j] = f[k] => j = k
           /\ \A j, k \in 1..size : j < k => number[j] < number[k]
           /\ \A k \in 1..size : rscs[f[k]].fields.disporder = number[k]
           => InDisplayOrder = f
<1> SUFFICES ASSUME NEW f \in [1..size -> 1..size], NEW number \in [1..size -> Nat],
                    \A j, k \in 1..size : f[j] = f[k] => j = k,
                    \A j, k \in 1..size : j < k => number[j] < number[k],
                    \A k \in 1..size : rscs[f[k]].fields.disporder = number[k]
             PROVE  InDisplayOrder = f
  OBVIOUS
<1>1. \A j, k \in 1..size : j < k => Precedes(f[j], f[k])
  BY DEF Precedes
<1>2. QED
  BY <1>1, ListInOrder

LEMMA NumberedImplies == ResourcesInv /\ Numbered => RenumberComplete
<1> SUFFICES ASSUME ResourcesInv, Numbered, NEW p \in Proc, pc[p] = "renumbered"
             PROVE  /\ DOMAIN indices[p] = 1..size
                    /\ \A k \in 1..size :
                         rscs[indices[p][k]].fields.disporder = k * Interval
                    /\ InDisplayOrder = indices[p]
  BY DEF RenumberComplete
<1>1. TypeOK /\ size \in Nat
  BY DEF ResourcesInv, TypeOK
<1>2. /\ indices[p] \in [1..size -> 1..size]
      /\ \A j, k \in 1..size : indices[p][j] = indices[p][k] => j = k
      /\ idx[p] = 0
      /\ \A k \in 1..size : k > idx[p] =>
           rscs[indices[p][k]].fields.disporder = k * Interval
  BY DEF Numbered, NumberedAt
<1>3. \A k \in 1..size : rscs[indices[p][k]].fields.disporder = k * Interval
  <2>1. \A k \in 1..size : k > 0
    BY <1>1
  <2>2. QED
    BY <1>2, <2>1
<1> DEFINE number == [k \in 1..size |-> k * Interval]
<1>4. number \in [1..size -> Nat]
  <2>1. \A k \in 1..size : k * Interval \in Nat
    <3>1. \A j, k \in Nat : j * k \in Nat
      OBVIOUS
    <3>2. QED
      BY <1>1, <3>1
  <2>2. QED
    BY <2>1
<1>5. \A j, k \in 1..size : j < k => number[j] < number[k]
  <2>1. \A j, k \in Nat : j < k => j * Interval < k * Interval
    BY Multiples
  <2>2. QED
    BY <1>1, <2>1
<1>6. \A k \in 1..size : rscs[indices[p][k]].fields.disporder = number[k]
  BY <1>3
<1>7. InDisplayOrder = indices[p]
  <2> DEFINE list == indices[p]
  <2>1. list \in [1..size -> 1..size]
    BY <1>2
  <2>2. \A j, k \in 1..size : list[j] = list[k] => j = k
    BY <1>2
  <2>3. \A k \in 1..size : rscs[list[k]].fields.disporder = number[k]
    BY <1>6
  <2> HIDE DEF list, number
  <2>4. TypeOK
    BY <1>1
  <2>5. InDisplayOrder = list
    BY ONLY <2>1, <2>2, <2>3, <2>4, <1>4, <1>5, NumberedInOrder
  <2>6. QED
    BY <2>5 DEF list
<1>8. QED
  BY <1>2, <1>3, <1>7

\* A step that changes no row, no list and no place of a renumbering keeps it numbered.
LEMMA NumberedKept ==
  ASSUME Numbered, NEW p \in Proc,
         indices' = indices, rscs' = rscs, size' = size,
         \A q \in Proc : q # p => pc'[q] = pc[q] /\ idx'[q] = idx[q],
         pc'[p] \notin {"loop", "renumbered"}
  PROVE  Numbered'
BY DEF Numbered, NumberedAt

LEMMA NumberedStep ==
  ASSUME ResourcesInv, ResourcesInv', Numbered, NEW p \in Proc, Step(p)
  PROVE  Numbered'
<1> USE DEF form, GoTo
<1>0. /\ TypeOK /\ OneInSection /\ size \in Nat /\ indices = [q \in Proc |-> indices[q]]
      /\ pc \in [Proc -> {"idle", "form"} \cup Editing \cup Renumbering]
      /\ idx \in [Proc -> 0..MaxRows]
  <2>1. TypeOK /\ OneInSection
    BY DEF ResourcesInv
  <2>2. size \in Nat
    BY <2>1 DEF TypeOK
  <2>3. indices = [q \in Proc |-> indices[q]]
    BY DEF Numbered
  <2>4. /\ pc \in [Proc -> {"idle", "form"} \cup Editing \cup Renumbering]
        /\ idx \in [Proc -> 0..MaxRows]
    BY <2>1 DEF TypeOK
  <2>5. QED
    BY ONLY <2>1, <2>2, <2>3, <2>4
<1>1. ASSUME NEW q \in Proc, q # p, owner \in {None, p}
      PROVE  pc[q] \notin {"loop", "renumbered"}
  <2>1. ~InSection(q)
    BY <1>0, <1>1 DEF OneInSection
  <2>2. QED
    BY <2>1 DEF InSection, Renumbering
<1>2. CASE Display(p)
  <2>1. PICK r \in 1..size : idx' = [idx EXCEPT ![p] = r]
    BY <1>2 DEF Display
  <2>2. QED
    BY <1>0, <1>2, <2>1, NumberedKept DEF Display
<1>3. CASE Redisplay(p)
  BY <1>0, <1>3, NumberedKept DEF Redisplay
<1>4. CASE Post(p)
  BY <1>0, <1>4, NumberedKept DEF Post
<1>5. CASE EnterModify(p)
  BY <1>0, <1>5, NumberedKept DEF EnterModify
<1>6. CASE Compare(p)
  BY <1>0, <1>6, NumberedKept DEF Compare
<1>7. CASE Update(p)
  <2>1. /\ owner = p /\ pc'[p] = "leave" /\ UNCHANGED <<size, idx, indices>>
        /\ \A q \in Proc : q # p => pc'[q] = pc[q]
    BY <1>0, <1>7 DEF Update, OneInSection, InSection
  <2>2. ASSUME NEW q \in Proc PROVE pc'[q] \notin {"loop", "renumbered"}
    BY <1>1, <2>1
  <2>3. QED
    BY <1>0, <2>1, <2>2 DEF Numbered, NumberedAt
<1>8. CASE Leave(p)
  <2>1. /\ pc'[p] \in {"form", "idle"} /\ UNCHANGED <<rscs, size>>
        /\ \A q \in Proc : q # p =>
             pc'[q] = pc[q] /\ idx'[q] = idx[q] /\ indices'[q] = indices[q]
    BY <1>0, <1>8 DEF Leave, ForgetScript
  <2>2. indices' = [q \in Proc |-> indices'[q]]
    BY <1>0, <1>8 DEF Leave, ForgetScript
  <2>3. QED
    BY <2>1, <2>2 DEF Numbered, NumberedAt
<1>9. CASE Insert(p)
  <2>1. /\ owner \in {None, p} /\ pc[p] = "idle" /\ UNCHANGED <<pc, indices>>
    BY <1>9 DEF Insert, MayQuery
  <2>2. ASSUME NEW q \in Proc PROVE pc'[q] \notin {"loop", "renumbered"}
    BY <1>1, <2>1
  <2>3. QED
    BY <1>0, <2>1, <2>2 DEF Numbered, NumberedAt
<1>10. CASE BeginRenumber(p)
  BY <1>0, <1>10, NumberedKept DEF BeginRenumber
<1>11. CASE SelectIndices(p)
  <2>1. /\ indices'[p] = InDisplayOrder /\ idx'[p] = size /\ pc'[p] = "loop"
        /\ UNCHANGED <<rscs, size>>
        /\ \A q \in Proc : q # p =>
             pc'[q] = pc[q] /\ idx'[q] = idx[q] /\ indices'[q] = indices[q]
    BY <1>0, <1>11 DEF SelectIndices
  <2>2. indices' = [q \in Proc |-> indices'[q]]
    BY <1>0, <1>11 DEF SelectIndices
  <2>3. \A j, k \in 1..size : InDisplayOrder[j] = InDisplayOrder[k] => j = k
    BY <1>0, DisplayOrder
  <2>4. InDisplayOrder \in [1..size -> 1..size]
    BY <1>0, DisplayOrder
  <2>5. \A k \in 1..size : ~(k > size) /\ size \in 0..size
    BY <1>0
  <2>6. NumberedAt(p)'
    <3>1. size \in 0..size
      BY <1>0
    <3>2. QED
      BY <2>1, <2>3, <2>4, <2>5, <3>1 DEF NumberedAt
  <2>7. \A q \in Proc : q # p => NumberedAt(q)'
    BY <2>1 DEF Numbered, NumberedAt
  <2>8. QED
    BY <2>2, <2>6, <2>7 DEF Numbered
<1>12. CASE RenumberRow(p)
  <2>1. /\ pc[p] = "loop" /\ idx[p] > 0
        /\ idx' = [idx EXCEPT ![p] = idx[p] - 1]
        /\ UNCHANGED <<size, pc, indices>>
    BY <1>12 DEF RenumberRow
  <2>2. /\ indices[p] \in [1..size -> 1..size]
        /\ \A j, k \in 1..size : indices[p][j] = indices[p][k] => j = k
        /\ idx[p] \in 1..size
        /\ \A k \in 1..size : k > idx[p] =>
             rscs[indices[p][k]].fields.disporder = k * Interval
    BY <1>0, <2>1 DEF Numbered, NumberedAt
  <2> DEFINE t == indices[p][idx[p]]
  <2>3. t \in 1..size /\ rscs \in [1..size -> Record]
    BY <1>0, <2>2 DEF TypeOK
  <2>4. /\ \A r \in 1..size : r # t => rscs'[r] = rscs[r]
        /\ rscs'[t].fields = [rscs[t].fields EXCEPT !.disporder = NewNumber(idx[p])]
    BY <1>12, <2>3 DEF RenumberRow
  <2>5. rscs'[t].fields.disporder = idx[p] * Interval
    BY <2>3, <2>4 DEF Record, Fields, NewNumber
  <2>6. idx'[p] = idx[p] - 1 /\ idx'[p] \in 0..size
    BY <1>0, <2>1, <2>2
  <2>7. \A k \in 1..size : k > idx'[p] =>
          rscs'[indices[p][k]].fields.disporder = k * Interval
    <3> SUFFICES ASSUME NEW k \in 1..size, k > idx'[p]
                 PROVE  rscs'[indices[p][k]].fields.disporder = k * Interval
      OBVIOUS
    <3>1. CASE k = idx[p]
      BY <2>5, <3>1
    <3>2. CASE k # idx[p]
      <4>1. k > idx[p]
        BY <1>0, <2>2, <2>6, <3>2
      <4>2. indices[p][k] \in 1..size /\ indices[p][k] # t
        BY <2>2, <3>2
      <4>3. QED
        BY <2>2, <2>4, <4>1, <4>2
    <3>3. QED
      BY <3>1, <3>2
  <2>8. NumberedAt(p)'
    BY <2>1, <2>2, <2>6, <2>7 DEF NumberedAt
  <2>9. owner = p
    BY <1>0, <2>1 DEF OneInSection, InSection, Renumbering
  <2>10. \A q \in Proc : q # p => NumberedAt(q)'
    BY <1>1, <2>1, <2>9 DEF NumberedAt
  <2>11. QED
    BY <1>0, <2>1, <2>8, <2>10 DEF Numbered
<1>13. CASE EndRenumber(p)
  <2>1. /\ pc[p] = "loop" /\ idx[p] = 0 /\ UNCHANGED <<rscs, size, idx, indices>>
        /\ \A q \in Proc : q # p => pc'[q] = pc[q]
    BY <1>0, <1>13 DEF EndRenumber
  <2>2. QED
    BY <2>1 DEF Numbered, NumberedAt
<1>14. CASE Die(p)
  <2>1. /\ pc'[p] \in {"form", "idle"} /\ UNCHANGED <<rscs, size>>
        /\ \A q \in Proc : q # p =>
             pc'[q] = pc[q] /\ idx'[q] = idx[q] /\ indices'[q] = indices[q]
    BY <1>0, <1>14 DEF Die, ForgetScript
  <2>2. indices' = [q \in Proc |-> indices'[q]]
    BY <1>0, <1>14 DEF Die, ForgetScript
  <2>3. QED
    BY <2>1, <2>2 DEF Numbered, NumberedAt
<1>15. QED
  BY <1>2, <1>3, <1>4, <1>5, <1>6, <1>7, <1>8, <1>9, <1>10, <1>11, <1>12, <1>13,
     <1>14 DEF Step

LEMMA NumberedHolds == Spec => []Numbered
<1>1. Init => Numbered
  BY DEF Init, Numbered, NumberedAt
<1>2. ResourcesInv /\ ResourcesInv' /\ Numbered /\ [Next]_vars => Numbered'
  <2>1. ASSUME UNCHANGED vars, Numbered PROVE Numbered'
    BY <2>1 DEF vars, form, Numbered, NumberedAt
  <2>2. ASSUME ResourcesInv, ResourcesInv', Numbered, NEW p \in Proc, Step(p)
        PROVE  Numbered'
    BY <2>2, NumberedStep
  <2>3. QED
    BY <2>1, <2>2 DEF Next, Step
<1>3. QED
  BY <1>1, <1>2, ResourcesInvHolds, PTL DEF Spec

\* A renumbering that reaches its end has numbered every row, in the order it found.
THEOREM RenumberingsComplete == Spec => []RenumberComplete
BY NumberedHolds, ResourcesInvHolds, NumberedImplies, PTL
-----------------------------------------------------------------------------
\* When a renumbering does keep the order: no row that it has yet to number has a
\* disporder as high as the number its successor gets.
Room(p) ==
  \A j \in 1..size : j <= idx[p] /\ j < size =>
    rscs[indices[p][j]].fields.disporder < (j + 1) * Interval

OrderWithRoom ==
  [][\A p \in Proc : pc[p] = "loop" /\ Room(p) =>
       InDisplayOrder' = InDisplayOrder /\ (pc'[p] = "loop" => Room(p)')]_vars

\* The rows that a renumbering has yet to number are in the order it read.
Unpassed ==
  \A p \in Proc : pc[p] = "loop" =>
    \A j, k \in 1..size : j < k /\ k <= idx[p] => Precedes(indices[p][j], indices[p][k])

\* The display order lists the rows in order.
LEMMA ListedInOrder ==
  ASSUME TypeOK, NEW j \in 1..size, NEW k \in 1..size, j < k
  PROVE  Precedes(InDisplayOrder[j], InDisplayOrder[k])
<1> DEFINE r == InDisplayOrder[j]
           s == InDisplayOrder[k]
<1>1. r \in 1..size /\ s \in 1..size /\ Rank(r) = j /\ Rank(s) = k
  BY DisplayOrder
<1>2. size \in Nat
  BY DEF TypeOK
<1> HIDE DEF r, s
<1>3. r # s
  BY <1>1, <1>2
<1>4. ~Precedes(s, r)
  <2>1. SUFFICES ASSUME Precedes(s, r) PROVE FALSE
    OBVIOUS
  <2>2. Rank(s) < Rank(r)
    BY <1>1, <2>1, RankGrows
  <2>3. QED
    BY <1>1, <1>2, <2>2
<1>5. Precedes(r, s)
  BY <1>1, <1>3, <1>4, OrderIsStrict
<1>6. QED
  BY <1>5 DEF r, s

\* The same of the next state.
LEMMA ListInOrderNext ==
  (TypeOK =>
     \A f \in [1..size -> 1..size] :
       /\ \A j, k \in 1..size : f[j] = f[k] => j = k
       /\ \A j, k \in 1..size : j < k => Precedes(f[j], f[k])
       => InDisplayOrder = f)'
<1>1. TypeOK =>
        \A f \in [1..size -> 1..size] :
          /\ \A j, k \in 1..size : f[j] = f[k] => j = k
          /\ \A j, k \in 1..size : j < k => Precedes(f[j], f[k])
          => InDisplayOrder = f
  BY ListInOrder
<1>2. QED
  BY <1>1, PTL

\* A step that changes no row, and of a loop neither its place nor its list.
Kept ==
  /\ UNCHANGED <<rscs, size>>
  /\ \A q \in Proc : pc'[q] = "loop" =>
       pc[q] = "loop" /\ idx'[q] = idx[q] /\ indices'[q] = indices[q]

NoLoop == \A q \in Proc : pc[q] # "loop"

LEMMA Alone ==
  ASSUME ResourcesInv, NEW p \in Proc, NEW q \in Proc, pc[q] = "loop", owner \in {None, p}
  PROVE  q = p
<1>1. owner = q
  BY DEF ResourcesInv, OneInSection, InSection, Renumbering
<1>2. QED
  BY <1>1

\* Only three kinds of steps matter to a loop.
LEMMA StepKinds ==
  ASSUME ResourcesInv, Numbered, NEW p \in Proc, Step(p)
  PROVE  RenumberRow(p) \/ SelectIndices(p) \/ (NoLoop /\ NoLoop') \/ Kept
<1>0. /\ indices = [q \in Proc |-> indices[q]]
      /\ pc \in [Proc -> {"idle", "form"} \cup Editing \cup Renumbering]
      /\ idx \in [Proc -> 0..MaxRows]
  BY DEF Numbered, ResourcesInv, TypeOK
<1> USE DEF form, GoTo
<1>1. CASE Display(p)
  <2>1. PICK r \in 1..size : idx' = [idx EXCEPT ![p] = r]
    BY <1>1 DEF Display
  <2>2. pc' = [pc EXCEPT ![p] = "form"] /\ UNCHANGED <<rscs, size, indices>>
    BY <1>1 DEF Display
  <2>3. Kept
    BY <1>0, <2>1, <2>2 DEF Kept
  <2>4. QED
    BY <2>3
<1>2. CASE Redisplay(p) \/ Post(p) \/ EnterModify(p) \/ Compare(p) \/ BeginRenumber(p) \/ EndRenumber(p)
  <2>1. /\ UNCHANGED <<rscs, size, idx, indices>>
        /\ \/ pc' = pc
           \/ \E label \in {"posted", "compare", "leave", "update", "select", "renumbered"} :
                pc' = [pc EXCEPT ![p] = label]
    BY <1>2 DEF Redisplay, Post, EnterModify, Compare, BeginRenumber, EndRenumber
  <2>2. Kept
    BY <1>0, <2>1 DEF Kept
  <2>3. QED
    BY <2>2
<1>3. CASE Update(p)
  <2>1. pc[p] = "update" /\ pc' = [pc EXCEPT ![p] = "leave"]
    BY <1>3 DEF Update
  <2>2. owner = p
    BY <2>1 DEF ResourcesInv, OneInSection, InSection
  <2>3. NoLoop
    BY <2>1, <2>2, Alone DEF NoLoop
  <2>4. NoLoop'
    BY <1>0, <2>1, <2>3 DEF NoLoop
  <2>5. QED
    BY <2>3, <2>4
<1>4. CASE Insert(p)
  <2>1. pc[p] = "idle" /\ pc' = pc /\ owner \in {None, p}
    BY <1>4 DEF Insert, MayQuery
  <2>2. NoLoop
    BY <2>1, Alone DEF NoLoop
  <2>3. QED
    BY <2>1, <2>2 DEF NoLoop
<1>5. CASE Leave(p) \/ Die(p)
  <2>1. /\ UNCHANGED <<rscs, size>>
        /\ \E label \in {"form", "idle"} : pc' = [pc EXCEPT ![p] = label]
        /\ idx' = [idx EXCEPT ![p] = idx'[p]]
        /\ indices' = [indices EXCEPT ![p] = <<>>]
    BY <1>0, <1>5 DEF Leave, Die, ForgetScript
  <2>2. Kept
    BY <1>0, <2>1 DEF Kept
  <2>3. QED
    BY <2>2
<1>6. QED
  BY <1>1, <1>2, <1>3, <1>4, <1>5 DEF Step

\* What a turn of the loop does to the rows of its list.
LEMMA Turn ==
  ASSUME ResourcesInv, Numbered, NEW p \in Proc, RenumberRow(p)
  PROVE  /\ size \in Nat /\ idx[p] \in 1..size /\ idx'[p] = idx[p] - 1
         /\ UNCHANGED <<size, pc, indices>>
         /\ indices[p] \in [1..size -> 1..size]
         /\ \A j, k \in 1..size : indices[p][j] = indices[p][k] => j = k
         /\ \A j \in 1..size : rscs[indices[p][j]].fields.disporder \in Nat
         /\ \A j \in 1..size : j # idx[p] => rscs'[indices[p][j]] = rscs[indices[p][j]]
         /\ rscs'[indices[p][idx[p]]].fields.disporder = idx[p] * Interval
         /\ \A k \in 1..size : k > idx[p] =>
              rscs[indices[p][k]].fields.disporder = k * Interval
<1>0. TypeOK
  BY DEF ResourcesInv
<1>1. /\ pc[p] = "loop" /\ idx[p] > 0
      /\ idx' = [idx EXCEPT ![p] = idx[p] - 1]
      /\ UNCHANGED <<size, pc, indices>>
  BY DEF RenumberRow
<1>2. /\ indices[p] \in [1..size -> 1..size]
      /\ \A j, k \in 1..size : indices[p][j] = indices[p][k] => j = k
      /\ idx[p] \in 0..size
      /\ \A k \in 1..size : k > idx[p] =>
           rscs[indices[p][k]].fields.disporder = k * Interval
  BY <1>1 DEF Numbered, NumberedAt
<1>3. size \in Nat /\ idx[p] \in 1..size /\ idx'[p] = idx[p] - 1
  BY <1>0, <1>1, <1>2 DEF TypeOK
<1> DEFINE t == indices[p][idx[p]]
<1>4. /\ t \in 1..size /\ rscs \in [1..size -> Record]
      /\ \A j \in 1..size : indices[p][j] \in 1..size
  BY <1>0, <1>2, <1>3 DEF TypeOK
<1>5. /\ \A r \in 1..size : r # t => rscs'[r] = rscs[r]
      /\ rscs'[t].fields = [rscs[t].fields EXCEPT !.disporder = NewNumber(idx[p])]
  BY <1>4 DEF RenumberRow
<1>6. /\ rscs'[t].fields.disporder = idx[p] * Interval
      /\ \A r \in 1..size : rscs[r].fields.disporder \in Nat
  BY <1>4, <1>5 DEF Record, Fields, NewNumber
<1>7. \A j \in 1..size : j # idx[p] => rscs'[indices[p][j]] = rscs[indices[p][j]]
  <2>1. \A j \in 1..size : j # idx[p] => indices[p][j] # t
    BY <1>2, <1>3
  <2>2. QED
    BY <1>4, <1>5, <2>1
<1>8. QED
  BY <1>1, <1>2, <1>3, <1>4, <1>6, <1>7

LEMMA UnpassedStep ==
  ASSUME ResourcesInv, Numbered, Unpassed, NEW p \in Proc, Step(p)
  PROVE  Unpassed'
<1>0. /\ pc \in [Proc -> {"idle", "form"} \cup Editing \cup Renumbering]
      /\ idx \in [Proc -> 0..MaxRows]
      /\ indices = [q \in Proc |-> indices[q]]
  BY DEF ResourcesInv, TypeOK, Numbered
<1>1. CASE RenumberRow(p)
  <2>1. owner = p
    BY <1>1 DEF RenumberRow, ResourcesInv, OneInSection, InSection, Renumbering
  <2>2. SUFFICES ASSUME NEW j \in 1..size, NEW k \in 1..size, j < k, k <= idx'[p]
                 PROVE  Precedes(indices[p][j], indices[p][k])'
    <3>1. UNCHANGED <<size, pc, indices>>
      BY <1>1, Turn
    <3>2. \A q \in Proc : pc'[q] = "loop" => q = p
      BY <2>1, <3>1, Alone
    <3>3. QED
      BY <2>2, <3>1, <3>2 DEF Unpassed
  <2>3. k <= idx[p] /\ j # idx[p] /\ k # idx[p]
    BY <1>1, <2>2, Turn
  <2>4. /\ rscs'[indices[p][j]] = rscs[indices[p][j]]
        /\ rscs'[indices[p][k]] = rscs[indices[p][k]]
        /\ indices' = indices
    BY <1>1, <2>3, Turn
  <2>5. Precedes(indices[p][j], indices[p][k])
    BY <1>1, <2>2, <2>3 DEF Unpassed, RenumberRow
  <2>6. QED
    BY <2>4, <2>5 DEF Precedes
<1>2. CASE SelectIndices(p)
  <2>1. /\ indices'[p] = InDisplayOrder /\ UNCHANGED <<rscs, size>> /\ owner = p
        /\ pc' = [pc EXCEPT ![p] = "loop"]
    BY <1>0, <1>2 DEF SelectIndices, GoTo, ResourcesInv, OneInSection, InSection, Renumbering
  <2>2. \A q \in Proc : pc'[q] = "loop" => q = p
    BY <1>0, <2>1, Alone
  <2>3. TypeOK
    BY DEF ResourcesInv
  <2>4. \A j, k \in 1..size : j < k => Precedes(InDisplayOrder[j], InDisplayOrder[k])
    BY <2>3, ListedInOrder
  <2>5. SUFFICES ASSUME NEW j \in 1..size, NEW k \in 1..size, j < k
                 PROVE  Precedes(indices[p][j], indices[p][k])'
    BY <2>1, <2>2 DEF Unpassed
  <2>6. Precedes(indices'[p][j], indices'[p][k])
    BY <2>1, <2>4, <2>5
  <2>7. QED
    BY <2>1, <2>6 DEF Precedes
<1>3. CASE NoLoop'
  BY <1>3 DEF NoLoop, Unpassed
<1>4. CASE Kept
  BY <1>4 DEF Kept, Unpassed, Precedes
<1>5. QED
  BY <1>1, <1>2, <1>3, <1>4, StepKinds

LEMMA OrderStep ==
  ASSUME ResourcesInv, ResourcesInv', Numbered, Unpassed,
         NEW p \in Proc, RenumberRow(p), Room(p)
  PROVE  InDisplayOrder' = InDisplayOrder /\ Room(p)'
<1> DEFINE list == indices[p]
           here == idx[p]
<1>1. /\ size \in Nat /\ here \in 1..size /\ idx'[p] = here - 1
      /\ UNCHANGED <<size, pc, indices>>
      /\ list \in [1..size -> 1..size]
      /\ \A j, k \in 1..size : list[j] = list[k] => j = k
      /\ \A j \in 1..size : rscs[list[j]].fields.disporder \in Nat
      /\ \A j \in 1..size : j # here => rscs'[list[j]] = rscs[list[j]]
      /\ rscs'[list[here]].fields.disporder = here * Interval
      /\ \A k \in 1..size : k > here => rscs[list[k]].fields.disporder = k * Interval
  BY Turn
<1>2. \A j \in 1..size : j <= here /\ j < size =>
        rscs[list[j]].fields.disporder < (j + 1) * Interval
  BY DEF Room
<1>3. \A j, k \in 1..size : j < k /\ k <= here => Precedes(list[j], list[k])
  BY DEF Unpassed, RenumberRow
<1>4. TypeOK /\ TypeOK'
  BY DEF ResourcesInv
<1>5. \A j, k \in 1..size : j < k => j * Interval < k * Interval
  BY <1>1, Multiples
<1>6. \A j, k \in 1..size : j < k => (j + 1) * Interval <= k * Interval
  <2>1. SUFFICES ASSUME NEW j \in 1..size, NEW k \in 1..size, j < k
                 PROVE  (j + 1) * Interval <= k * Interval
    OBVIOUS
  <2>2. CASE k = j + 1
    <3>1. k * Interval \in Int
      BY <1>1
    <3>2. QED
      BY <2>2, <3>1
  <2>3. CASE k # j + 1
    <3>1. j + 1 \in Nat /\ k \in Nat /\ j + 1 < k
      BY <1>1, <2>1, <2>3
    <3>2. (j + 1) * Interval < k * Interval
      BY <3>1, Multiples
    <3>3. (j + 1) * Interval \in Int /\ k * Interval \in Int
      BY <3>1
    <3>4. QED
      BY <3>2, <3>3
  <2>4. QED
    BY <2>2, <2>3
<1>7. \A k \in 1..size : k * Interval \in Int /\ (k + 1) * Interval \in Int
  BY <1>1
<1> HIDE DEF list, here
\* Below a row that has its number, there is room.
<1>8. ASSUME NEW j \in 1..size, NEW k \in 1..size, j < k, j <= here
      PROVE  rscs[list[j]].fields.disporder < k * Interval
  <2>1. j < size
    BY <1>1, <1>8
  <2>2. rscs[list[j]].fields.disporder < (j + 1) * Interval
    BY <1>2, <1>8, <2>1
  <2>3. (j + 1) * Interval <= k * Interval
    BY <1>6, <1>8
  <2>4. /\ rscs[list[j]].fields.disporder \in Int
        /\ (j + 1) * Interval \in Int /\ k * Interval \in Int
    BY <1>1, <1>7
  <2>5. QED
    BY ONLY <2>2, <2>3, <2>4
<1>9. ASSUME NEW j \in 1..size, NEW k \in 1..size, j < k
      PROVE  Precedes(list[j], list[k])
  <2>1. CASE k <= here
    BY <1>3, <1>9, <2>1
  <2>2. CASE k > here /\ j <= here
    <3>1. /\ rscs[list[j]].fields.disporder < k * Interval
          /\ rscs[list[k]].fields.disporder = k * Interval
      BY <1>1, <1>8, <1>9, <2>2
    <3>2. QED
      BY <3>1 DEF Precedes
  <2>3. CASE k > here /\ j > here
    <3>1. /\ rscs[list[j]].fields.disporder = j * Interval
          /\ rscs[list[k]].fields.disporder = k * Interval
          /\ j * Interval < k * Interval
      BY <1>1, <1>5, <1>9, <2>3
    <3>2. QED
      BY <3>1 DEF Precedes
  <2>4. QED
    BY <1>1, <2>1, <2>2, <2>3
<1>10. ASSUME NEW j \in 1..size, NEW k \in 1..size, j < k
       PROVE  Precedes(list[j], list[k])'
  <2>0. list' = list /\ list[j] \in 1..size /\ list[k] \in 1..size
    BY <1>1 DEF list
  <2>1. CASE k < here
    <3>1. Precedes(list[j], list[k])
      BY <1>9, <1>10
    <3>2. rscs'[list[j]] = rscs[list[j]] /\ rscs'[list[k]] = rscs[list[k]]
      BY <1>1, <1>10, <2>1
    <3>3. QED
      BY <2>0, <3>1, <3>2 DEF Precedes
  <2>2. CASE k >= here
    <3>1. rscs'[list[k]].fields.disporder = k * Interval
      <4>1. k = here \/ (k # here /\ k > here)
        BY <1>1, <2>2
      <4>2. CASE k = here
        BY <1>1, <4>2
      <4>3. CASE k # here /\ k > here
        BY <1>1, <4>3
      <4>4. QED
        BY <4>1, <4>2, <4>3
    <3>2. rscs'[list[j]].fields.disporder < k * Interval
      <4>1. CASE j < here
        <5>0. j \in Int /\ here \in Int
          BY <1>1
        <5>1. j <= here /\ j # here
          BY ONLY <4>1, <5>0
        <5>2. rscs'[list[j]] = rscs[list[j]]
          BY <1>1, <5>1
        <5>3. QED
          BY <1>8, <1>10, <5>1, <5>2
      <4>2. CASE j >= here
        <5>1. rscs'[list[j]].fields.disporder = j * Interval
          <6>1. CASE j = here
            BY <1>1, <6>1
          <6>2. CASE j # here
            <7>0. j \in Int /\ here \in Int
              BY <1>1
            <7>1. j > here
              BY ONLY <4>2, <6>2, <7>0
            <7>2. QED
              BY <1>1, <6>2, <7>1
          <6>3. QED
            BY <6>1, <6>2
        <5>2. QED
          BY <1>5, <1>10, <5>1
      <4>3. QED
        BY <1>1, <4>1, <4>2
    <3>3. QED
      BY <2>0, <3>1, <3>2 DEF Precedes
  <2>3. QED
    BY <1>1, <2>1, <2>2
<1>11. InDisplayOrder = list
  BY <1>1, <1>4, <1>9, ListInOrder
<1>12. InDisplayOrder' = list'
  <2>1. size' = size /\ list' = list
    BY <1>1 DEF list
  <2>2. list' \in [1..size' -> 1..size'] /\ \A j, k \in 1..size' : list'[j] = list'[k] => j = k
    BY <1>1, <2>1
  <2>3. \A j, k \in 1..size' : j < k => Precedes(list[j], list[k])'
    BY <1>10, <2>1
  <2>4. QED
    BY <1>4, <2>2, <2>3, ListInOrderNext
<1>13. Room(p)'
  <2>1. idx' [p] = here - 1 /\ indices'[p] = list /\ size' = size
    BY <1>1 DEF list
  <2>2. ASSUME NEW j \in 1..size, j <= here - 1, j < size
        PROVE  rscs'[list[j]].fields.disporder < (j + 1) * Interval
    <3>1. j <= here /\ j # here
      BY <1>1, <2>2
    <3>2. QED
      BY <1>1, <1>2, <2>2, <3>1
  <2>3. QED
    BY <2>1, <2>2 DEF Room
<1>14. QED
  BY <1>1, <1>11, <1>12, <1>13 DEF list

\* The comment of rscsx.inc 1270 ("We loop backwards to avoid changing resource
\* order in the event that the httpd process dies") is true where the table has room:
\* if no row begins with a disporder as high as the number of its successor, then
\* whatever step is taken during the loop, a death among them, leaves the order as it was.
THEOREM OrderKeptWithRoom == Spec => OrderWithRoom
<1>1. Init => Unpassed
  BY DEF Init, Unpassed
<1>2. ResourcesInv /\ Numbered /\ Unpassed /\ [Next]_vars => Unpassed'
  <2>1. ASSUME UNCHANGED vars, Unpassed PROVE Unpassed'
    BY <2>1 DEF vars, form, Unpassed, Precedes
  <2>2. QED
    BY <2>1, UnpassedStep DEF Next, Step
<1>3. ASSUME ResourcesInv, ResourcesInv', Numbered, Unpassed, [Next]_vars
      PROVE  [\A p \in Proc : pc[p] = "loop" /\ Room(p) =>
                InDisplayOrder' = InDisplayOrder /\ (pc'[p] = "loop" => Room(p)')]_vars
  <2>1. SUFFICES ASSUME NEW p \in Proc, pc[p] = "loop", Room(p), NEW q \in Proc, Step(q)
                 PROVE  InDisplayOrder' = InDisplayOrder /\ (pc'[p] = "loop" => Room(p)')
    BY <1>3 DEF Next, Step
  <2>2. CASE RenumberRow(q)
    <3>1. owner = q
      BY <1>3, <2>2 DEF RenumberRow, ResourcesInv, OneInSection, InSection, Renumbering
    <3>2. p = q
      BY <1>3, <2>1, <3>1, Alone
    <3>3. QED
      BY <1>3, <2>1, <2>2, <3>2, OrderStep
  <2>3. CASE SelectIndices(q)
    <3>1. owner = q /\ pc[q] = "select"
      BY <1>3, <2>3 DEF SelectIndices, ResourcesInv, OneInSection, InSection, Renumbering
    <3>2. QED
      BY <1>3, <2>1, <3>1, Alone
  <2>4. CASE NoLoop
    BY <2>1, <2>4 DEF NoLoop
  <2>5. CASE Kept
    <3>1. /\ rscs' = rscs /\ size' = size
          /\ pc'[p] = "loop" => idx'[p] = idx[p] /\ indices'[p] = indices[p]
      BY <2>5 DEF Kept
    <3>2. \A r, s : Precedes(r, s)' <=> Precedes(r, s)
      BY <3>1 DEF Precedes
    <3>3. \A r : Rank(r)' = Rank(r)
      <4>1. SUFFICES ASSUME NEW r
                     PROVE  {s \in 1..size : Precedes(s, r)}' = {s \in 1..size : Precedes(s, r)}
        BY DEF Rank
      <4>2. QED
        BY <3>1, <3>2
    <3>4. InDisplayOrder' = InDisplayOrder
      BY <3>1, <3>3 DEF InDisplayOrder
    <3>5. QED
      BY <2>1, <3>1, <3>4 DEF Room
  <2>6. QED
    BY <1>3, <2>1, <2>2, <2>3, <2>4, <2>5, StepKinds
<1>4. QED
  BY <1>1, <1>2, <1>3, ResourcesInvHolds, NumberedHolds, PTL DEF Spec, OrderWithRoom
=============================================================================
