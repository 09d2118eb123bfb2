------------------------- MODULE LeaderboardsProofs -------------------------
(***************************************************************************)
(* Proofs of the safety properties of leaderboard metadata, for any sets   *)
(* of leaderboards, columns, values and requests.                          *)
(***************************************************************************)
EXTENDS LeaderboardsProps, TLAPS

USE LeaderboardsAssumption

-----------------------------------------------------------------------------
(* Types.                                                                  *)

LEMMA OperationType ==
  ASSUME NEW o \in Operation
  PROVE  /\ o.Id \in Id
         /\ o.Kind = "update" => o.Patch \in Patch
BY DEF Operation

\* A row with some of its columns replaced is a row.
LEMMA PatchedRow ==
  ASSUME NEW v \in Row, NEW patch \in Patch
  PROVE  [f \in Field |-> IF f \in DOMAIN patch THEN patch[f] ELSE v[f]] \in Row
<1>1. PICK F \in SUBSET Field : patch \in [F -> Value]
  BY DEF Patch
<1>2. QED
  BY <1>1 DEF Row

\* Repository.Update keeps the types of the table and of its history.
LEMMA UpdateType ==
  ASSUME TypeOK, NEW i \in Id, NEW patch \in Patch, Update(i, patch)
  PROVE  table' \in [Id -> Row \cup {None}] /\ versions' \in [Id -> Seq(Row)]
<1>1. CASE table[i] = None
  BY <1>1 DEF Update, TypeOK
<1>2. CASE table[i] # None
  <2> DEFINE v == [f \in Field |-> IF f \in DOMAIN patch THEN patch[f] ELSE table[i][f]]
  <2>1. v \in Row
    BY <1>2, PatchedRow DEF TypeOK
  <2>2. Write(i, v)
    BY <1>2 DEF Update
  <2> HIDE DEF v
  <2>3. QED
    BY <2>1, <2>2 DEF Write, TypeOK
<1>3. QED
  BY <1>1, <1>2

LEMMA TypeInit == Init => TypeOK
BY DEF Init, TypeOK

\* Every step keeps the types.
LEMMA TypeNext == TypeOK /\ [Next]_vars => TypeOK'
<1> SUFFICES ASSUME TypeOK, [Next]_vars  PROVE TypeOK'
  OBVIOUS
<1>1. ASSUME NEW i \in Id, Expire(i)  PROVE TypeOK'
  BY <1>1 DEF Expire, TypeOK, requestVars
<1>2. ASSUME NEW i \in Id, NEW v \in Row, CreateLeaderboard(i, v)  PROVE TypeOK'
  BY <1>2 DEF CreateLeaderboard, Write, TypeOK, requestVars
<1>3. ASSUME NEW r \in Request, NEW o \in Operation, Begin(r, o)  PROVE TypeOK'
  BY <1>3 DEF Begin, Goto, TypeOK
<1>4. ASSUME NEW r \in Request,
             GetHit(r) \/ GetMiss(r) \/ FindOneById(r) \/ NotFound(r) \/ Set(r) \/ SetFails(r)
      PROVE  TypeOK'
  <2>1. pc[r] # "idle" => op[r] \in Operation /\ op[r].Id \in Id
    BY OperationType DEF TypeOK
  <2>2. CASE GetHit(r)
    BY <2>1, <2>2 DEF GetHit, Goto, TypeOK
  <2>3. CASE GetMiss(r) \/ NotFound(r)
    BY <2>3 DEF GetMiss, NotFound, Goto, TypeOK
  <2>4. CASE FindOneById(r)
    BY <2>1, <2>4 DEF FindOneById, Goto, TypeOK
  <2>5. CASE Set(r)
    BY <2>1, <2>5 DEF Set, Goto, TypeOK
  <2>6. CASE SetFails(r)
    <3>1. cached' \in [Id -> Row \cup {None}]
      BY <2>1, <2>6 DEF SetFails, TypeOK
    <3>2. QED
      BY <2>6, <3>1 DEF SetFails, Goto, TypeOK
  <2>7. QED
    BY <1>4, <2>2, <2>3, <2>4, <2>5, <2>6
<1>5. ASSUME NEW r \in Request, GetLeaderboardDetail(r)  PROVE TypeOK'
  <2>1. pc' \in [Request -> {"idle", "get", "find", "set", "use", "done", "failed"}]
    BY <1>5 DEF GetLeaderboardDetail, Goto, TypeOK
  <2>2. \A q \in Request : pc'[q] # "idle" => pc[q] # "idle"
    BY <1>5 DEF GetLeaderboardDetail, Goto, TypeOK
  <2>3. \A q \in Request : pc'[q] \in {"set", "use", "done"} => pc[q] \in {"set", "use", "done"}
    BY <1>5 DEF GetLeaderboardDetail, Goto, TypeOK
  <2>4. QED
    BY <1>5, <2>1, <2>2, <2>3 DEF GetLeaderboardDetail, TypeOK
<1>6. ASSUME NEW r \in Request, UpdateLeaderboard(r) \/ UpdateLeaderboardFails(r)
      PROVE  TypeOK'
  <2>1. op[r] \in Operation /\ op[r].Id \in Id /\ op[r].Patch \in Patch
    BY <1>6, OperationType DEF UpdateLeaderboard, UpdateLeaderboardFails, TypeOK
  <2>2. table' \in [Id -> Row \cup {None}] /\ versions' \in [Id -> Seq(Row)]
    <3>1. CASE UNCHANGED <<table, versions>>
      BY <3>1 DEF TypeOK
    <3>2. CASE Update(op[r].Id, op[r].Patch)
      BY <2>1, <3>2, UpdateType
    <3>3. QED
      BY <1>6, <3>1, <3>2 DEF UpdateLeaderboard, UpdateLeaderboardFails
  <2>3. CASE UpdateLeaderboard(r)
    BY <2>2, <2>3 DEF UpdateLeaderboard, Goto, TypeOK
  <2>4. CASE UpdateLeaderboardFails(r)
    BY <2>2, <2>4 DEF UpdateLeaderboardFails, Goto, TypeOK
  <2>5. QED
    BY <1>6, <2>3, <2>4
<1>7. CASE UNCHANGED vars
  BY <1>7 DEF vars, requestVars, TypeOK
<1>8. QED
  BY <1>1, <1>2, <1>3, <1>4, <1>5, <1>6, <1>7 DEF Next, Serve

\* The variables have their types, and a request past its lookup holds a row.
THEOREM TypeCorrect == Spec => []TypeOK
BY TypeInit, TypeNext, PTL DEF Spec

-----------------------------------------------------------------------------
(* Copies.  The current row is one the id has had, and so are the cached   *)
(* copy and what each request holds; nobody holds anything before its      *)
(* lookup answered.                                                        *)

RowsAreHad == \A i \in Id : table[i] # None => table[i] \in Had(i)

FreshHoldNothing ==
  \A r \in Request : pc[r] \in {"idle", "get", "find"} => model[r] = None

CopiesInv == TypeOK /\ RowsAreHad /\ FreshHoldNothing /\ CopiesAreRows

\* Writing a row adds it to those the id has had and to no others.
LEMMA HadAfterWrite ==
  ASSUME TypeOK, NEW i \in Id, NEW v \in Row, Write(i, v)
  PROVE  /\ Had(i)' = Had(i) \cup {v}
         /\ \A j \in Id \ {i} : Had(j)' = Had(j)
<1>1. versions[i] \in Seq(Row) /\ versions' = [versions EXCEPT ![i] = Append(versions[i], v)]
  BY DEF Write, TypeOK
<1>2. \A j \in Id \ {i} : versions'[j] = versions[j]
  BY <1>1 DEF TypeOK
<1>3. versions'[i] = Append(versions[i], v)
  BY <1>1 DEF TypeOK
<1>4. /\ DOMAIN versions'[i] = 1..(Len(versions[i]) + 1)
      /\ DOMAIN versions[i] = 1..Len(versions[i])
      /\ \A k \in 1..Len(versions[i]) : versions'[i][k] = versions[i][k]
      /\ versions'[i][Len(versions[i]) + 1] = v
      /\ Len(versions[i]) \in Nat
  BY <1>1, <1>3
<1>5. ASSUME NEW w \in Had(i)'  PROVE w \in Had(i) \cup {v}
  <2>1. PICK k \in 1..(Len(versions[i]) + 1) : w = versions'[i][k]
    BY <1>4, <1>5 DEF Had
  <2>2. k \in 1..Len(versions[i]) \/ k = Len(versions[i]) + 1
    BY <1>4, <2>1
  <2>3. QED
    BY <1>4, <2>1, <2>2 DEF Had
<1>6. ASSUME NEW w \in Had(i) \cup {v}  PROVE w \in Had(i)'
  <2>1. CASE w = v
    <3>1. Len(versions[i]) + 1 \in DOMAIN versions'[i]
      BY <1>4
    <3>2. QED
      BY <1>4, <2>1, <3>1 DEF Had
  <2>2. CASE w \in Had(i)
    <3>1. PICK k \in 1..Len(versions[i]) : w = versions[i][k]
      BY <1>4, <2>2 DEF Had
    <3>2. k \in DOMAIN versions'[i] /\ w = versions'[i][k]
      BY <1>4, <3>1
    <3>3. QED
      BY <3>2 DEF Had
  <2>3. QED
    BY <1>6, <2>1, <2>2
<1>7. \A j \in Id \ {i} : Had(j)' = Had(j)
  BY <1>2 DEF Had
<1>8. QED
  BY <1>5, <1>6, <1>7

\* No row is ever forgotten, and the current row is among them.
LEMMA HadGrows ==
  ASSUME CopiesInv, NEW i \in Id, NEW v \in Row, Write(i, v)
  PROVE  RowsAreHad' /\ \A j \in Id : Had(j) \subseteq Had(j)'
<1>1. TypeOK
  BY DEF CopiesInv
<1>2. /\ Had(i)' = Had(i) \cup {v}
      /\ \A j \in Id \ {i} : Had(j)' = Had(j)
  BY <1>1, HadAfterWrite
<1>3. table'[i] = v /\ \A j \in Id \ {i} : table'[j] = table[j]
  BY <1>1 DEF Write, TypeOK
<1>4. QED
  BY <1>2, <1>3 DEF CopiesInv, RowsAreHad

\* What Repository.Update does to the rows an id has had.
LEMMA HadAfterUpdate ==
  ASSUME CopiesInv, NEW i \in Id, NEW patch \in Patch, Update(i, patch)
  PROVE  RowsAreHad' /\ \A j \in Id : Had(j) \subseteq Had(j)'
<1>1. CASE table[i] = None
  BY <1>1 DEF Update, CopiesInv, RowsAreHad, Had
<1>2. CASE table[i] # None
  <2> DEFINE v == [f \in Field |-> IF f \in DOMAIN patch THEN patch[f] ELSE table[i][f]]
  <2>1. v \in Row
    BY <1>2, PatchedRow DEF CopiesInv, TypeOK
  <2>2. Write(i, v)
    BY <1>2 DEF Update
  <2> HIDE DEF v
  <2>3. QED
    BY <2>1, <2>2, HadGrows
<1>3. QED
  BY <1>1, <1>2

LEMMA CopiesInit == Init => CopiesInv
BY TypeInit DEF Init, CopiesInv, RowsAreHad, FreshHoldNothing, CopiesAreRows

\* Every step keeps copies and rows in agreement.
LEMMA CopiesNext == CopiesInv /\ [Next]_vars => CopiesInv'
<1> SUFFICES ASSUME CopiesInv, [Next]_vars  PROVE CopiesInv'
  OBVIOUS
<1>1. TypeOK /\ TypeOK'
  BY TypeNext DEF CopiesInv
<1> DEFINE Rest == RowsAreHad' /\ FreshHoldNothing' /\ CopiesAreRows'
<1> SUFFICES Rest
  BY <1>1 DEF CopiesInv
<1>2. ASSUME RowsAreHad' /\ \A j \in Id : Had(j) \subseteq Had(j)',
             FreshHoldNothing', UNCHANGED <<cached, op, model>>
      PROVE  Rest
  <2>1. \A r \in Request : model[r] # None => op[r].Id \in Id
    BY <1>1, OperationType DEF CopiesInv, FreshHoldNothing, TypeOK
  <2>2. QED
    BY <1>2, <2>1 DEF CopiesInv, CopiesAreRows
<1>3. ASSUME NEW i \in Id, Expire(i)  PROVE Rest
  BY <1>1, <1>3 DEF Expire, requestVars, TypeOK, CopiesInv, RowsAreHad,
     FreshHoldNothing, CopiesAreRows, Had
<1>4. ASSUME NEW i \in Id, NEW v \in Row, CreateLeaderboard(i, v)  PROVE Rest
  <2>1. FreshHoldNothing'
    BY <1>4 DEF CreateLeaderboard, requestVars, CopiesInv, FreshHoldNothing
  <2>2. QED
    BY <1>2, <1>4, <2>1, HadGrows DEF CreateLeaderboard, requestVars
<1>5. ASSUME NEW r \in Request, NEW o \in Operation, Begin(r, o)  PROVE Rest
  <2>1. model[r] = None
    BY <1>5 DEF Begin, CopiesInv, FreshHoldNothing
  <2>2. /\ UNCHANGED <<table, versions, cached, model>>
        /\ \A q \in Request \ {r} : op'[q] = op[q] /\ pc'[q] = pc[q]
        /\ pc'[r] = "get"
    BY <1>1, <1>5 DEF Begin, Goto, TypeOK
  <2>3. RowsAreHad' /\ \A j \in Id : Had(j)' = Had(j)
    BY <2>2 DEF CopiesInv, RowsAreHad, Had
  <2>4. FreshHoldNothing'
    BY <2>1, <2>2 DEF CopiesInv, FreshHoldNothing
  <2>5. \A q \in Request : model[q] # None => op[q].Id \in Id
    BY <1>1, OperationType DEF CopiesInv, FreshHoldNothing, TypeOK
  <2>6. CopiesAreRows'
    BY <2>1, <2>2, <2>3, <2>5 DEF CopiesInv, CopiesAreRows
  <2>7. QED
    BY <2>3, <2>4, <2>6
<1>6. ASSUME NEW r \in Request,
             GetHit(r) \/ GetMiss(r) \/ FindOneById(r) \/ NotFound(r) \/ Set(r) \/ SetFails(r)
      PROVE  Rest
  <2>1. UNCHANGED <<table, versions, op>>
    BY <1>6 DEF GetHit, GetMiss, FindOneById, NotFound, Set, SetFails
  <2>2. RowsAreHad' /\ \A j \in Id : Had(j)' = Had(j)
    BY <2>1 DEF CopiesInv, RowsAreHad, Had
  <2>3. op[r].Id \in Id
    BY <1>1, <1>6, OperationType
       DEF GetHit, GetMiss, FindOneById, NotFound, Set, SetFails, TypeOK
  <2>4. CASE GetHit(r) \/ FindOneById(r)
    <3>1. model'[r] \in Had(op[r].Id)
      BY <1>1, <2>3, <2>4 DEF GetHit, FindOneById, TypeOK, CopiesInv, CopiesAreRows, RowsAreHad
    <3>2. /\ cached' = cached
          /\ \A q \in Request \ {r} : model'[q] = model[q] /\ pc'[q] = pc[q]
          /\ pc'[r] \in {"set", "use"}
      BY <1>1, <2>4 DEF GetHit, FindOneById, Goto, TypeOK
    <3>3. FreshHoldNothing'
      BY <3>2 DEF CopiesInv, FreshHoldNothing
    <3>4. /\ \A i \in Id : cached[i] # None => cached[i] \in Had(i)
          /\ \A q \in Request : model[q] # None => model[q] \in Had(op[q].Id)
      BY DEF CopiesInv, CopiesAreRows
    <3>5. \A q \in Request : model'[q] # None => op[q].Id \in Id
      BY <1>1, <2>3, <3>2, OperationType DEF CopiesInv, FreshHoldNothing, TypeOK
    <3>6. CopiesAreRows'
      BY <2>1, <2>2, <3>1, <3>2, <3>4, <3>5 DEF CopiesAreRows
    <3>7. QED
      BY <2>2, <3>3, <3>6
  <2>5. CASE GetMiss(r) \/ NotFound(r)
    <3>1. FreshHoldNothing'
      BY <1>1, <2>5 DEF GetMiss, NotFound, Goto, TypeOK, CopiesInv, FreshHoldNothing
    <3>2. QED
      BY <1>2, <2>2, <2>5, <3>1 DEF GetMiss, NotFound
  <2>6. CASE Set(r) \/ SetFails(r)
    <3>1. model' = model /\ \A i \in Id : cached'[i] = cached[i] \/ (i = op[r].Id /\ cached'[i] = model[r])
      BY <1>1, <2>3, <2>6 DEF Set, SetFails, TypeOK
    <3>2. FreshHoldNothing'
      BY <1>1, <2>6 DEF Set, SetFails, Goto, TypeOK, CopiesInv, FreshHoldNothing
    <3>3. /\ \A i \in Id : cached[i] # None => cached[i] \in Had(i)
          /\ \A q \in Request : model[q] # None => model[q] \in Had(op[q].Id)
      BY DEF CopiesInv, CopiesAreRows
    <3>4. \A q \in Request : model[q] # None => op[q].Id \in Id
      BY <1>1, OperationType DEF CopiesInv, FreshHoldNothing, TypeOK
    <3>5. CopiesAreRows'
      BY <2>1, <2>2, <3>1, <3>3, <3>4 DEF CopiesAreRows
    <3>6. QED
      BY <2>2, <3>2, <3>5
  <2>7. QED
    BY <1>6, <2>4, <2>5, <2>6
<1>7. ASSUME NEW r \in Request, GetLeaderboardDetail(r)  PROVE Rest
  <2>1. FreshHoldNothing'
    BY <1>1, <1>7 DEF GetLeaderboardDetail, Goto, TypeOK, CopiesInv, FreshHoldNothing
  <2>2. RowsAreHad' /\ \A j \in Id : Had(j)' = Had(j)
    BY <1>7 DEF GetLeaderboardDetail, CopiesInv, RowsAreHad, Had
  <2>3. QED
    BY <1>2, <1>7, <2>1, <2>2 DEF GetLeaderboardDetail
<1>8. ASSUME NEW r \in Request, UpdateLeaderboard(r) \/ UpdateLeaderboardFails(r)
      PROVE  Rest
  <2>1. op[r] \in Operation /\ op[r].Id \in Id /\ op[r].Patch \in Patch
    BY <1>1, <1>8, OperationType DEF UpdateLeaderboard, UpdateLeaderboardFails, TypeOK
  <2>2. FreshHoldNothing'
    BY <1>1, <1>8 DEF UpdateLeaderboard, UpdateLeaderboardFails, Goto, TypeOK, CopiesInv,
       FreshHoldNothing
  <2>3. RowsAreHad' /\ \A j \in Id : Had(j) \subseteq Had(j)'
    <3>1. CASE UNCHANGED <<table, versions>>
      BY <3>1 DEF CopiesInv, RowsAreHad, Had
    <3>2. CASE Update(op[r].Id, op[r].Patch)
      BY <2>1, <3>2, HadAfterUpdate
    <3>3. QED
      BY <1>8, <3>1, <3>2 DEF UpdateLeaderboard, UpdateLeaderboardFails
  <2>4. QED
    BY <1>2, <1>8, <2>2, <2>3 DEF UpdateLeaderboard, UpdateLeaderboardFails
<1>9. CASE UNCHANGED vars
  BY <1>9 DEF vars, requestVars, CopiesInv, RowsAreHad, FreshHoldNothing, CopiesAreRows, Had
<1>10. QED
  BY <1>3, <1>4, <1>5, <1>6, <1>7, <1>8, <1>9 DEF Next, Serve

\* Whatever is cached or answered is a row the table had.
THEOREM CopiesAreRowsCorrect == Spec => []CopiesAreRows
<1>1. CopiesInv => CopiesAreRows
  BY DEF CopiesInv
<1>2. QED
  BY <1>1, CopiesInit, CopiesNext, PTL DEF Spec

-----------------------------------------------------------------------------
(* No update is lost.  A leaderboard without a row has had none, so the    *)
(* row an update found is there to be written.                             *)

NoRowNeverHad == \A i \in Id : table[i] = None => versions[i] = <<>>

LostInv == CopiesInv /\ NoRowNeverHad /\ NoLostUpdate

\* A request past its lookup has a leaderboard whose row exists.
LEMMA FoundRowExists ==
  ASSUME LostInv, NEW r \in Request, pc[r] \in {"use", "done"}
  PROVE  op[r].Id \in Id /\ table[op[r].Id] \in Row
<1>1. op[r].Id \in Id /\ model[r] \in Row
  BY OperationType DEF LostInv, CopiesInv, TypeOK
<1>2. model[r] # None
  BY <1>1
<1>3. model[r] \in Had(op[r].Id)
  BY <1>2 DEF LostInv, CopiesInv, CopiesAreRows
<1>4. versions[op[r].Id] # <<>>
  BY <1>3 DEF Had
<1>5. QED
  BY <1>1, <1>4 DEF LostInv, NoRowNeverHad, CopiesInv, TypeOK

LEMMA NoRowNext == LostInv /\ [Next]_vars => NoRowNeverHad'
<1> SUFFICES ASSUME LostInv, [Next]_vars  PROVE NoRowNeverHad'
  OBVIOUS
<1>1. TypeOK /\ NoRowNeverHad
  BY DEF LostInv, CopiesInv
<1>2. CASE UNCHANGED <<table, versions>>
  BY <1>1, <1>2 DEF NoRowNeverHad
<1>3. ASSUME NEW i \in Id, NEW v \in Row, Write(i, v)  PROVE NoRowNeverHad'
  BY <1>1, <1>3 DEF Write, TypeOK, NoRowNeverHad
<1>4. ASSUME NEW i \in Id, NEW patch \in Patch, Update(i, patch)  PROVE NoRowNeverHad'
  <2>1. CASE table[i] = None
    BY <1>2, <1>4, <2>1 DEF Update
  <2>2. CASE table[i] # None
    <3> DEFINE v == [f \in Field |-> IF f \in DOMAIN patch THEN patch[f] ELSE table[i][f]]
    <3>1. v \in Row
      BY <1>1, <2>2, PatchedRow DEF TypeOK
    <3>2. Write(i, v)
      BY <1>4, <2>2 DEF Update
    <3> HIDE DEF v
    <3>3. QED
      BY <1>3, <3>1, <3>2
  <2>3. QED
    BY <2>1, <2>2
<1>5. ASSUME NEW r \in Request, UpdateLeaderboard(r) \/ UpdateLeaderboardFails(r)
      PROVE  NoRowNeverHad'
  <2>1. op[r].Id \in Id /\ op[r].Patch \in Patch
    BY <1>1, <1>5, OperationType DEF UpdateLeaderboard, UpdateLeaderboardFails, TypeOK
  <2>2. QED
    BY <1>2, <1>4, <1>5, <2>1 DEF UpdateLeaderboard, UpdateLeaderboardFails
<1>6. QED
  BY <1>2, <1>3, <1>5 DEF Next, Serve, Expire, CreateLeaderboard, Begin, GetHit, GetMiss,
     FindOneById, NotFound, Set, SetFails, GetLeaderboardDetail, vars

\* A request that is over stays over.
Finished(r) == pc[r] \in {"done", "failed"}

FinishedStay(r) ==
  Finished(r) => pc'[r] = pc[r] /\ op'[r] = op[r]

LEMMA FinishedNext ==
  ASSUME TypeOK, [Next]_vars, NEW q \in Request
  PROVE  FinishedStay(q)
<1>1. ASSUME NEW r \in Request, NEW l, ~Finished(r), Goto(r, l)
      PROVE  Finished(q) => pc'[q] = pc[q]
  BY <1>1 DEF Finished, Goto, TypeOK
<1>2. ASSUME NEW r \in Request, NEW o \in Operation, Begin(r, o)  PROVE FinishedStay(q)
  BY <1>2 DEF Begin, Goto, Finished, FinishedStay, TypeOK
<1>3. ASSUME NEW r \in Request, Serve(r)  PROVE FinishedStay(q)
  <2>1. op' = op /\ ~Finished(r) /\ \E l \in {"find", "set", "use", "done", "failed"} : Goto(r, l)
    BY <1>3 DEF Serve, GetHit, GetMiss, FindOneById, NotFound, Set, SetFails,
       GetLeaderboardDetail, UpdateLeaderboard, UpdateLeaderboardFails, Finished
  <2>2. QED
    BY <1>1, <2>1 DEF FinishedStay
<1>4. ASSUME UNCHANGED requestVars  PROVE FinishedStay(q)
  BY <1>4 DEF requestVars, FinishedStay
<1>5. QED
  BY <1>2, <1>3, <1>4 DEF Next, Expire, CreateLeaderboard, vars

LEMMA PatchColumns ==
  ASSUME NEW patch \in Patch, NEW f \in DOMAIN patch
  PROVE  f \in Field
BY DEF Patch

\* q may have set column f of r's leaderboard to the value it has now.
Overwrote(q, r, f) == MaySet(q, op[r].Id, f, table[op[r].Id][f])

\* Column f is as r set it, or was overwritten.
Accounted(r, f) ==
  \/ table[op[r].Id][f] = op[r].Patch[f]
  \/ \E q \in Request \ {r} : Overwrote(q, r, f)

LEMMA NoLostIsAccounted ==
  NoLostUpdate <=> \A r \in Request : pc[r] = "done" /\ op[r].Kind = "update" =>
                     \A f \in DOMAIN op[r].Patch : Accounted(r, f)
BY DEF NoLostUpdate, Accounted, Overwrote

\* Steps that write no existing row and complete no update that has columns.
LEMMA NoWriteLosesNothing ==
  ASSUME LostInv, [Next]_vars,
         \A i \in Id : table[i] # None => table'[i] = table[i],
         \A r \in Request : pc'[r] = "done" /\ op'[r].Kind = "update"
                             /\ DOMAIN op'[r].Patch # {} => pc[r] = "done"
  PROVE  NoLostUpdate'
<1>1. TypeOK /\ NoLostUpdate
  BY DEF LostInv, CopiesInv
<1>2. SUFFICES ASSUME NEW r \in Request, pc'[r] = "done", op'[r].Kind = "update",
                      NEW f \in DOMAIN op'[r].Patch
               PROVE  Accounted(r, f)'
  BY DEF NoLostUpdate, Accounted, Overwrote
<1>3. pc[r] = "done" /\ op'[r] = op[r]
  BY <1>1, <1>2, FinishedNext DEF FinishedStay, Finished
<1>4. op[r].Id \in Id /\ table'[op[r].Id] = table[op[r].Id]
  <2>1. op[r].Id \in Id /\ table[op[r].Id] \in Row
    BY <1>3, FoundRowExists
  <2>2. QED
    BY <2>1
<1>5. CASE table[op[r].Id][f] = op[r].Patch[f]
  BY <1>3, <1>4, <1>5 DEF Accounted
<1>6. ASSUME NEW q \in Request \ {r}, Overwrote(q, r, f)
      PROVE  Overwrote(q, r, f)'
  <2>1. pc'[q] = pc[q] /\ op'[q] = op[q]
    BY <1>1, <1>6, FinishedNext DEF FinishedStay, Finished, Overwrote, MaySet
  <2>2. QED
    BY <1>3, <1>4, <1>6, <2>1 DEF Overwrote, MaySet
<1>7. QED
  BY <1>1, <1>2, <1>3, <1>5, <1>6, NoLostIsAccounted DEF Accounted

\* The UPDATE of one request takes from others only the columns it sets itself.
LEMMA WriteLosesNothing ==
  ASSUME LostInv, [Next]_vars, NEW u \in Request,
         pc[u] = "use", op[u].Kind = "update", op' = op,
         pc'[u] \in {"done", "failed"}, \A r \in Request \ {u} : pc'[r] = pc[r],
         Update(op[u].Id, op[u].Patch)
  PROVE  NoLostUpdate'
<1>1. TypeOK /\ NoLostUpdate
  BY DEF LostInv, CopiesInv
<1>2. /\ op[u].Id \in Id /\ table[op[u].Id] \in Row
      /\ op[u].Patch \in Patch
  BY <1>1, FoundRowExists, OperationType DEF TypeOK
<1>3. /\ \A i \in Id \ {op[u].Id} : table'[i] = table[i]
      /\ table'[op[u].Id] = [f \in Field |-> IF f \in DOMAIN op[u].Patch THEN op[u].Patch[f]
                                              ELSE table[op[u].Id][f]]
  BY <1>1, <1>2 DEF Update, Write, TypeOK
<1>4. SUFFICES ASSUME NEW r \in Request, pc'[r] = "done", op[r].Kind = "update",
                      NEW f \in DOMAIN op[r].Patch
               PROVE  Accounted(r, f)'
  BY DEF NoLostUpdate, Accounted, Overwrote
<1>5. CASE r = u
  <2>1. f \in Field
    BY <1>2, <1>4, <1>5, PatchColumns
  <2>2. QED
    BY <1>3, <1>4, <1>5, <2>1 DEF Accounted
<1>6. CASE r # u
  <2>1. pc[r] = "done"
    BY <1>4, <1>6
  <2>2. op[r].Id \in Id /\ f \in Field
    <3>1. op[r] \in Operation
      BY <1>1, <2>1 DEF TypeOK
    <3>2. op[r].Patch \in Patch
      BY <1>4, <3>1, OperationType
    <3>3. QED
      BY <1>4, <3>1, <3>2, OperationType, PatchColumns
  <2>3. ASSUME table'[op[r].Id][f] = table[op[r].Id][f]
        PROVE  Accounted(r, f)'
    <3>1. CASE table[op[r].Id][f] = op[r].Patch[f]
      BY <2>3, <3>1 DEF Accounted
    <3>2. ASSUME NEW q \in Request \ {r}, Overwrote(q, r, f)
          PROVE  Overwrote(q, r, f)'
      <4>1. pc'[q] = pc[q] /\ op'[q] = op[q]
        BY <1>1, <3>2, FinishedNext DEF FinishedStay, Finished, Overwrote, MaySet
      <4>2. QED
        BY <2>3, <3>2, <4>1 DEF Overwrote, MaySet
    <3>3. QED
      BY <1>1, <1>4, <2>1, <3>1, <3>2, NoLostIsAccounted DEF Accounted
  <2>4. CASE op[r].Id # op[u].Id
    BY <1>3, <2>2, <2>3, <2>4
  <2>5. CASE op[r].Id = op[u].Id /\ f \notin DOMAIN op[u].Patch
    BY <1>3, <2>2, <2>3, <2>5
  <2>6. CASE op[r].Id = op[u].Id /\ f \in DOMAIN op[u].Patch
    <3>1. table'[op[r].Id][f] = op[u].Patch[f]
      BY <1>3, <2>2, <2>6
    <3>2. Overwrote(u, r, f)'
      BY <2>6, <3>1 DEF Overwrote, MaySet
    <3>3. QED
      BY <1>6, <3>2 DEF Accounted
  <2>7. QED
    BY <2>4, <2>5, <2>6
<1>7. QED
  BY <1>5, <1>6

LEMMA NoLostNext == LostInv /\ [Next]_vars => NoLostUpdate'
<1> SUFFICES ASSUME LostInv, [Next]_vars  PROVE NoLostUpdate'
  OBVIOUS
<1>1. TypeOK
  BY DEF LostInv, CopiesInv
<1>2. ASSUME UNCHANGED <<table, requestVars>>  PROVE NoLostUpdate'
  BY <1>2, NoWriteLosesNothing DEF requestVars
<1>3. ASSUME NEW i \in Id, NEW v \in Row, CreateLeaderboard(i, v)  PROVE NoLostUpdate'
  BY <1>1, <1>3, NoWriteLosesNothing DEF CreateLeaderboard, Write, requestVars, TypeOK
<1>4. ASSUME NEW r \in Request, NEW l, Goto(r, l), op' = op, table' = table,
             \/ l # "done" \/ op[r].Kind # "update" \/ DOMAIN op[r].Patch = {}
      PROVE  NoLostUpdate'
  BY <1>1, <1>4, NoWriteLosesNothing DEF Goto, TypeOK
<1>5. ASSUME NEW r \in Request, NEW o \in Operation, Begin(r, o)  PROVE NoLostUpdate'
  BY <1>1, <1>5, NoWriteLosesNothing DEF Begin, Goto, TypeOK
<1>6. ASSUME NEW r \in Request,
             \/ GetHit(r) \/ GetMiss(r) \/ FindOneById(r) \/ NotFound(r) \/ Set(r)
             \/ SetFails(r) \/ GetLeaderboardDetail(r)
      PROVE  NoLostUpdate'
  BY <1>4, <1>6 DEF GetHit, GetMiss, FindOneById, NotFound, Set, SetFails, GetLeaderboardDetail
<1>7. ASSUME NEW r \in Request, UpdateLeaderboard(r)  PROVE NoLostUpdate'
  <2>1. CASE DOMAIN op[r].Patch = {}
    BY <1>4, <1>7, <2>1 DEF UpdateLeaderboard
  <2>2. CASE DOMAIN op[r].Patch # {}
    BY <1>1, <1>7, <2>2, WriteLosesNothing DEF UpdateLeaderboard, Goto, TypeOK
  <2>3. QED
    BY <2>1, <2>2
<1>8. ASSUME NEW r \in Request, UpdateLeaderboardFails(r)  PROVE NoLostUpdate'
  <2>1. CASE UNCHANGED <<table, versions>>
    BY <1>4, <1>8, <2>1 DEF UpdateLeaderboardFails
  <2>2. CASE Update(op[r].Id, op[r].Patch)
    BY <1>1, <1>8, <2>2, WriteLosesNothing DEF UpdateLeaderboardFails, Goto, TypeOK
  <2>3. QED
    BY <1>8, <2>1, <2>2 DEF UpdateLeaderboardFails
<1>9. QED
  BY <1>2, <1>3, <1>5, <1>6, <1>7, <1>8 DEF Next, Serve, Expire, vars

\* A finished update's columns keep its values until another update of the same
\* columns: working from a stale copy overwrites nothing.
THEOREM NoLostUpdateCorrect == Spec => []NoLostUpdate
<1>1. Init => LostInv
  <2>1. Init => NoRowNeverHad /\ NoLostUpdate
    BY DEF Init, NoRowNeverHad, NoLostUpdate
  <2>2. QED
    BY <2>1, CopiesInit DEF LostInv
<1>2. LostInv /\ [Next]_vars => LostInv'
  BY CopiesNext, NoRowNext, NoLostNext DEF LostInv
<1>3. LostInv => NoLostUpdate
  BY DEF LostInv
<1>4. QED
  BY <1>1, <1>2, <1>3, PTL DEF Spec
=============================================================================
