------------------------ MODULE PostCloseUpdateProofs ------------------------
(***************************************************************************)
(* Proofs about PostCloseUpdate, for any number of operator's processes    *)
(* and any lengths of the day, the evening and the window: its types, that *)
(* a PASS row is never ahead of the data set, and that the worker alone    *)
(* does not repeat an update.                                              *)
(***************************************************************************)
EXTENDS PostCloseUpdate, TLAPS

(***************************************************************************)
(* The calendar.                                                           *)
(***************************************************************************)
\* There is a last evening, and the days pass one by one.
LEMMA DaysPass ==
  ASSUME clock \in Nat
  PROVE  /\ Today \in Nat
         /\ (clock + 1) \div DayLength \in Nat
         /\ (clock + 1) \div DayLength \in {Today, Today + 1}
         /\ (clock + 1) % DayLength # 0 => (clock + 1) \div DayLength = Today
<1> DEFINE q == clock \div DayLength
           r == clock % DayLength
           s == (clock + 1) \div DayLength
           u == (clock + 1) % DayLength
<1>1. DayLength \in Nat /\ DayLength > 0
  BY UpdateAssumption
<1>2. q \in Int /\ r \in 0 .. DayLength - 1 /\ clock = DayLength * q + r
  BY <1>1, Z3
<1>3. s \in Int /\ u \in 0 .. DayLength - 1 /\ clock + 1 = DayLength * s + u
  BY <1>1, Z3
<1> HIDE DEF q, r, s, u
<1> DEFINE k == s - q
<1>4. k \in Int /\ s = q + k
  BY <1>2, <1>3
<1>5. DayLength * s = DayLength * q + DayLength * k
  BY <1>1, <1>2, <1>4, Z3
<1> HIDE DEF k
<1>6. DayLength * k = r + 1 - u
  BY <1>1, <1>2, <1>3, <1>4, <1>5
<1>7. ASSUME NEW j \in Int
      PROVE  /\ j <= -1 => DayLength * j <= 0 - DayLength
             /\ j >= 2 => DayLength * j >= DayLength + DayLength
  BY <1>1, Z3
<1>8. k = 0 \/ (k = 1 /\ u = 0)
  <2>1. ~(k <= -1) /\ ~(k >= 2)
    BY <1>1, <1>2, <1>3, <1>4, <1>6, <1>7
  <2>2. k = 0 \/ k = 1
    BY <1>4, <2>1
  <2>3. CASE k = 1
    <3>1. DayLength * k = DayLength
      BY <1>1, <2>3
    <3> QED
      BY <1>1, <1>2, <1>3, <1>6, <2>3, <3>1
  <2> QED
    BY <2>2, <2>3
<1>9. ~(q <= -1)
  BY <1>1, <1>2, <1>7
<1>10. q \in Nat /\ s \in Nat /\ s \in {q, q + 1} /\ (u # 0 => s = q)
  BY <1>2, <1>3, <1>4, <1>8, <1>9
<1> QED
  BY <1>10 DEF q, s, u, Today

(***************************************************************************)
(* The inductive invariant: an update under way has a row of its own       *)
(* target, which is that of the evening; what a process reports as passed  *)
(* has been promoted; and the worker's copy of the end of the data set is  *)
(* old only where an operator's process has moved it.                      *)
(***************************************************************************)
RowsRight ==
  \A p \in Process :
    pc[p] \in Running => /\ row[p] \in DOMAIN rows /\ rows[row[p]].target = target[p]
                         /\ p # Worker => target[p] \in byHand

OfThisEvening ==
  /\ final <= Today
  /\ \A p \in Process : pc[p] \in Running \cup {"create"} => target[p] = Today

Promised == \A p \in Process : pc[p] = "report" => target[p] <= final

WorkerKnows ==
  /\ cache[Worker] \notin {Unread, final} => final \in byHand
  /\ pc[Worker] \in {"create", "begin"} => cache[Worker] # Unread

UpdateInv ==
  /\ TypeOK /\ RowsRight /\ OfThisEvening /\ Promised /\ WorkerKnows /\ PassMeansPromoted

\* The initial states satisfy it.
LEMMA InitUpdateInv == Init => UpdateInv
<1> SUFFICES ASSUME Init PROVE UpdateInv
  OBVIOUS
<1> USE UpdateAssumption DEF Init
<1>1. Worker \in Process
  BY DEF Process
<1>2. clock \in Nat /\ final \in Nat /\ kills \in Nat /\ emptied \in BOOLEAN /\ byHand \subseteq Nat
  OBVIOUS
<1>3. rows \in Seq(Row) /\ Len(rows) = 0
  OBVIOUS
<1>4. /\ pc \in [Process -> {"off", "blind", "idle", "create"} \cup Running]
      /\ cache \in [Process -> Nat \cup {Unread}] /\ target \in [Process -> Nat]
      /\ dry \in [Process -> BOOLEAN]
  OBVIOUS
<1>5. row \in [Process -> 0 .. Len(rows)]
  BY <1>3
<1>6. TypeOK
  BY <1>2, <1>3, <1>4, <1>5 DEF TypeOK
<1>7. OfThisEvening
  BY <1>2, DaysPass DEF OfThisEvening, Running
<1>8. RowsRight /\ Promised /\ WorkerKnows /\ PassMeansPromoted
  BY <1>1, <1>3 DEF RowsRight, Promised, WorkerKnows, PassMeansPromoted, Running
<1> QED
  BY <1>6, <1>7, <1>8 DEF UpdateInv

\* finish_run changes the status of a row and nothing else of the table.
LEMMA FinishRows ==
  ASSUME UpdateInv, NEW p \in Process, NEW from \in Running, NEW status \in Status,
         Finish(p, from, status)
  PROVE  /\ rows' \in Seq(Row) /\ Len(rows') = Len(rows) /\ DOMAIN rows' = DOMAIN rows
         /\ \A i \in DOMAIN rows : /\ rows'[i].target = rows[i].target
                                   /\ i # row[p] => rows'[i] = rows[i]
         /\ row[p] \in DOMAIN rows /\ rows'[row[p]].status = status
<1>1. /\ rows \in Seq(Row) /\ pc[p] = from /\ row[p] \in DOMAIN rows
      /\ rows' = [rows EXCEPT ![row[p]].status = status]
  BY DEF UpdateInv, TypeOK, RowsRight, Finish, Goes
<1>2. rows[row[p]] \in Row
  BY <1>1
<1>3. [rows[row[p]] EXCEPT !.status = status] \in Row
  BY <1>2 DEF Row
<1>4. rows' = [rows EXCEPT ![row[p]] = [rows[row[p]] EXCEPT !.status = status]]
  BY <1>1, Zenon
<1>5. rows' \in Seq(Row) /\ Len(rows') = Len(rows) /\ DOMAIN rows' = DOMAIN rows
  BY <1>1, <1>3, <1>4
<1>6. \A i \in DOMAIN rows : i # row[p] => rows'[i] = rows[i]
  BY <1>1, <1>4
<1>7. rows'[row[p]] = [rows[row[p]] EXCEPT !.status = status]
  BY <1>1, <1>4
<1>8. rows'[row[p]].status = status /\ rows'[row[p]].target = rows[row[p]].target
  BY <1>2, <1>7 DEF Row
<1> QED
  BY <1>1, <1>5, <1>6, <1>8

\* A run that ends leaves the invariant as it was, if a PASS is reported after the
\* promotion.
LEMMA FinishInv ==
  ASSUME UpdateInv, NEW p \in Process, NEW from \in Running, NEW status \in Status,
         Finish(p, from, status), status = "PASS" => from = "report"
  PROVE  UpdateInv'
<1>1. /\ rows' \in Seq(Row) /\ Len(rows') = Len(rows) /\ DOMAIN rows' = DOMAIN rows
      /\ \A i \in DOMAIN rows : /\ rows'[i].target = rows[i].target
                                /\ i # row[p] => rows'[i] = rows[i]
      /\ row[p] \in DOMAIN rows /\ rows'[row[p]].status = status
  BY FinishRows
<1>2. /\ pc[p] = from
      /\ pc' = [pc EXCEPT ![p] = IF p = Worker THEN "idle" ELSE "off"]
      /\ cache' = (IF p = Worker THEN cache ELSE [cache EXCEPT ![p] = Unread])
      /\ target' = [target EXCEPT ![p] = 0] /\ dry' = [dry EXCEPT ![p] = FALSE]
      /\ row' = [row EXCEPT ![p] = 0]
      /\ UNCHANGED <<clock, final, emptied, kills, byHand>>
  BY DEF Finish, Goes, Forgets, config
<1>3. /\ pc \in [Process -> {"off", "blind", "idle", "create"} \cup Running]
      /\ cache \in [Process -> Nat \cup {Unread}] /\ target \in [Process -> Nat]
      /\ dry \in [Process -> BOOLEAN] /\ row \in [Process -> 0 .. Len(rows)]
      /\ Len(rows) \in Nat /\ Worker \in Process
  BY DEF UpdateInv, TypeOK, Process
<1>4. \A q \in Process : q # p => pc'[q] = pc[q] /\ target'[q] = target[q] /\ row'[q] = row[q]
  BY <1>2, <1>3
<1>5. pc'[p] \notin Running \cup {"create"}
  BY <1>2, <1>3 DEF Running
<1>6. TypeOK'
  <2>1. /\ cache' \in [Process -> Nat \cup {Unread}] /\ target' \in [Process -> Nat]
        /\ dry' \in [Process -> BOOLEAN]
    BY <1>2, <1>3
  <2>2. row' \in [Process -> 0 .. Len(rows')]
    BY <1>1, <1>2, <1>3
  <2>3. pc' \in [Process -> {"off", "blind", "idle", "create"} \cup Running]
    BY <1>2, <1>3
  <2> QED
    BY <1>1, <1>2, <2>1, <2>2, <2>3 DEF UpdateInv, TypeOK
<1>7. RowsRight'
  BY <1>1, <1>2, <1>4, <1>5 DEF UpdateInv, RowsRight
<1>8. OfThisEvening'
  BY <1>2, <1>4, <1>5 DEF UpdateInv, OfThisEvening, Today
<1>9. Promised'
  BY <1>2, <1>4, <1>5 DEF UpdateInv, Promised, Running
<1>10. WorkerKnows'
  BY <1>2, <1>3 DEF UpdateInv, WorkerKnows, Running
<1>11. PassMeansPromoted'
  <2>1. ASSUME NEW i \in DOMAIN rows', rows'[i].status = "PASS" PROVE rows'[i].target <= final'
    <3>1. CASE i = row[p]
      <4>1. pc[p] = "report" /\ rows[i].target = target[p]
        BY <1>1, <1>2, <2>1, <3>1 DEF UpdateInv, RowsRight
      <4> QED
        BY <1>1, <1>2, <4>1 DEF UpdateInv, Promised
    <3>2. CASE i # row[p]
      BY <1>1, <1>2, <2>1, <3>2 DEF UpdateInv, PassMeansPromoted
    <3> QED
      BY <3>1, <3>2
  <2> QED
    BY <2>1 DEF PassMeansPromoted
<1> QED
  BY <1>6, <1>7, <1>8, <1>9, <1>10, <1>11 DEF UpdateInv

\* A new row of the table.
LEMMA CreateInv ==
  ASSUME UpdateInv, NEW p \in Process, Create(p)
  PROVE  UpdateInv'
<1>1. /\ pc[p] = "create" /\ pc' = [pc EXCEPT ![p] = "begin"]
      /\ rows' = Append(rows, [target |-> target[p], status |-> "RUNNING", started |-> clock])
      /\ row' = [row EXCEPT ![p] = Len(rows) + 1]
      /\ byHand' = (IF p = Worker THEN byHand ELSE byHand \cup {target[p]})
      /\ UNCHANGED <<clock, final, emptied, cache, target, dry, kills>>
  BY DEF Create, Goes, config
<1>2. /\ rows \in Seq(Row) /\ Len(rows) \in Nat /\ clock \in Nat /\ byHand \subseteq Nat
      /\ pc \in [Process -> {"off", "blind", "idle", "create"} \cup Running]
      /\ target \in [Process -> Nat] /\ row \in [Process -> 0 .. Len(rows)] /\ Worker \in Process
  BY DEF UpdateInv, TypeOK, Process
<1>3. [target |-> target[p], status |-> "RUNNING", started |-> clock] \in Row
  BY <1>2 DEF Row, Status
<1>4. /\ rows' \in Seq(Row) /\ Len(rows') = Len(rows) + 1 /\ DOMAIN rows' = 1 .. Len(rows) + 1
      /\ \A i \in DOMAIN rows : i \in DOMAIN rows' /\ rows'[i] = rows[i]
      /\ rows'[Len(rows) + 1] = [target |-> target[p], status |-> "RUNNING", started |-> clock]
      /\ DOMAIN rows = 1 .. Len(rows)
  BY <1>1, <1>2, <1>3
<1>5. \A q \in Process : q # p => pc'[q] = pc[q] /\ row'[q] = row[q]
  BY <1>1, <1>2
<1>6. pc'[p] = "begin" /\ row'[p] = Len(rows) + 1
  BY <1>1, <1>2
<1>7. TypeOK'
  <2>1. row' \in [Process -> 0 .. Len(rows')]
    BY <1>1, <1>2, <1>4
  <2>2. pc' \in [Process -> {"off", "blind", "idle", "create"} \cup Running]
    BY <1>1, <1>2 DEF Running
  <2>3. byHand' \subseteq Nat
    BY <1>1, <1>2
  <2> QED
    BY <1>1, <1>4, <2>1, <2>2, <2>3 DEF UpdateInv, TypeOK
<1>8. RowsRight'
  <2>1. ASSUME NEW q \in Process, pc'[q] \in Running
        PROVE  /\ row'[q] \in DOMAIN rows' /\ rows'[row'[q]].target = target'[q]
               /\ q # Worker => target'[q] \in byHand'
    <3>1. CASE q = p
      BY <1>1, <1>2, <1>4, <1>6, <3>1
    <3>2. CASE q # p
      BY <1>1, <1>4, <1>5, <2>1, <3>2 DEF UpdateInv, RowsRight
    <3> QED
      BY <3>1, <3>2
  <2> QED
    BY <2>1 DEF RowsRight
<1>9. OfThisEvening'
  BY <1>1, <1>5 DEF UpdateInv, OfThisEvening, Today
<1>10. Promised'
  BY <1>1, <1>5, <1>6 DEF UpdateInv, Promised
<1>11. WorkerKnows'
  BY <1>1, <1>2, <1>5 DEF UpdateInv, WorkerKnows
<1>12. PassMeansPromoted'
  BY <1>1, <1>2, <1>4 DEF UpdateInv, PassMeansPromoted
<1> QED
  BY <1>7, <1>8, <1>9, <1>10, <1>11, <1>12 DEF UpdateInv

\* The promotion: the end of the data set moves to the evening's target.
LEMMA PromotedInv ==
  ASSUME UpdateInv, NEW p \in Process, Promoted(p)
  PROVE  UpdateInv' /\ final' >= final
<1>1. /\ pc[p] = "promote" /\ pc' = [pc EXCEPT ![p] = "report"]
      /\ final' = target[p] /\ emptied' = FALSE /\ cache' = [cache EXCEPT ![p] = Unread]
      /\ UNCHANGED <<clock, rows, target, dry, row, kills, byHand>>
  BY DEF Promoted, Goes, table, job
<1>2. /\ pc \in [Process -> {"off", "blind", "idle", "create"} \cup Running]
      /\ cache \in [Process -> Nat \cup {Unread}] /\ target \in [Process -> Nat] /\ final \in Nat
      /\ clock \in Nat /\ Worker \in Process
  BY DEF UpdateInv, TypeOK, Process
<1>3. /\ target[p] = Today /\ final <= Today /\ Today \in Nat
      /\ row[p] \in DOMAIN rows /\ (p # Worker => target[p] \in byHand)
  BY <1>1, <1>2, DaysPass DEF UpdateInv, OfThisEvening, RowsRight, Running
<1>4. final' >= final
  BY <1>1, <1>2, <1>3
<1>5. \A q \in Process : q # p => pc'[q] = pc[q] /\ cache'[q] = cache[q]
  BY <1>1, <1>2
<1>6. pc'[p] = "report" /\ cache'[p] = Unread
  BY <1>1, <1>2
<1>7. TypeOK'
  BY <1>1, <1>2 DEF UpdateInv, TypeOK, Running
<1>8. RowsRight'
  BY <1>1, <1>5, <1>6 DEF UpdateInv, RowsRight, Running
<1>9. OfThisEvening'
  BY <1>1, <1>2, <1>3, <1>5, <1>6 DEF UpdateInv, OfThisEvening, Today, Running
<1>10. Promised'
  BY <1>1, <1>2, <1>3, <1>4, <1>5, <1>6 DEF UpdateInv, Promised
<1>11. WorkerKnows'
  BY <1>1, <1>2, <1>3, <1>5, <1>6 DEF UpdateInv, WorkerKnows
<1>12. PassMeansPromoted'
  <2>1. \A i \in DOMAIN rows : rows[i].target \in Nat
    <3>1. rows \in Seq(Row)
      BY DEF UpdateInv, TypeOK
    <3>2. \A i \in DOMAIN rows : rows[i] \in Row
      BY <3>1
    <3> QED
      BY <3>2 DEF Row
  <2> QED
    BY <1>1, <1>2, <1>4, <2>1 DEF UpdateInv, PassMeansPromoted
<1> QED
  BY <1>4, <1>7, <1>8, <1>9, <1>10, <1>11, <1>12 DEF UpdateInv

\* Every step keeps the invariant.
LEMMA NextUpdateInv == UpdateInv /\ [Next]_vars => UpdateInv'
<1> SUFFICES ASSUME UpdateInv, [Next]_vars PROVE UpdateInv'
  OBVIOUS
<1>0. /\ pc \in [Process -> {"off", "blind", "idle", "create"} \cup Running]
      /\ cache \in [Process -> Nat \cup {Unread}] /\ target \in [Process -> Nat]
      /\ dry \in [Process -> BOOLEAN] /\ row \in [Process -> 0 .. Len(rows)]
      /\ rows \in Seq(Row) /\ Len(rows) \in Nat /\ final \in Nat /\ clock \in Nat /\ kills \in Nat
      /\ emptied \in BOOLEAN /\ byHand \subseteq Nat
      /\ Worker \in Process
  BY DEF UpdateInv, TypeOK, Process
<1>1. Today \in Nat
  BY <1>0, DaysPass
<1> USE DEF Running
<1>2. ASSUME NEW p \in Process, Launch(p) \/ Rereads(p) PROVE UpdateInv'
  <2>1. /\ pc' = [pc EXCEPT ![p] = IF emptied THEN "blind" ELSE "idle"]
        /\ cache' = [cache EXCEPT ![p] = IF emptied THEN Unread ELSE final]
        /\ UNCHANGED <<clock, rows, final, emptied, target, dry, row, kills, byHand>>
    BY <1>2 DEF Launch, Rereads, Loads, table, config, job
  <2>2. \A q \in Process : /\ q # p => pc'[q] = pc[q] /\ cache'[q] = cache[q]
                           /\ q = p => pc'[q] \in {"blind", "idle"} /\ cache'[q] \in {Unread, final}
    BY <1>0, <2>1
  <2>3. TypeOK'
    BY <1>0, <2>1 DEF UpdateInv, TypeOK
  <2>4. RowsRight' /\ Promised' /\ OfThisEvening'
    BY <2>1, <2>2 DEF UpdateInv, RowsRight, Promised, OfThisEvening, Today
  <2>5. WorkerKnows' /\ PassMeansPromoted'
    BY <1>0, <2>1, <2>2 DEF UpdateInv, WorkerKnows, PassMeansPromoted
  <2> QED
    BY <2>3, <2>4, <2>5 DEF UpdateInv
<1>3. ASSUME NEW p \in Process, NEW force \in BOOLEAN, NEW dryRun \in BOOLEAN,
             Decide(p, force, dryRun)
      PROVE  UpdateInv'
  <2>1. /\ pc[p] = "idle" /\ pc' = [pc EXCEPT ![p] = "create"]
        /\ target' = [target EXCEPT ![p] = Today] /\ dry' = [dry EXCEPT ![p] = dryRun]
        /\ UNCHANGED <<clock, rows, final, emptied, cache, row, kills, byHand>>
    BY <1>3 DEF Decide, Goes, table, config
  <2>2. \A q \in Process : /\ q # p => pc'[q] = pc[q] /\ target'[q] = target[q]
                           /\ q = p => pc'[q] = "create" /\ target'[q] = Today
    BY <1>0, <2>1
  <2>3. TypeOK'
    BY <1>0, <1>1, <2>1 DEF UpdateInv, TypeOK
  <2>4. RowsRight' /\ Promised' /\ OfThisEvening'
    BY <2>1, <2>2 DEF UpdateInv, RowsRight, Promised, OfThisEvening, Today
  <2>5. WorkerKnows' /\ PassMeansPromoted'
    <3>1. p = Worker => cache[p] # Unread
      BY <1>3 DEF Decide, Due
    <3> QED
      BY <1>0, <2>1, <2>2, <3>1 DEF UpdateInv, WorkerKnows, PassMeansPromoted
  <2> QED
    BY <2>3, <2>4, <2>5 DEF UpdateInv
<1>4. ASSUME NEW p \in Process, Declines(p) PROVE UpdateInv'
  <2>1. /\ p # Worker /\ pc[p] \in {"idle", "blind"} /\ pc' = [pc EXCEPT ![p] = "off"]
        /\ cache' = [cache EXCEPT ![p] = Unread]
        /\ UNCHANGED <<clock, rows, final, emptied, target, dry, row, kills, byHand>>
    BY <1>4 DEF Declines, table, config, job
  <2>2. \A q \in Process : /\ q # p => pc'[q] = pc[q] /\ cache'[q] = cache[q]
                           /\ q = p => pc'[q] = "off"
    BY <1>0, <2>1
  <2>3. TypeOK'
    BY <1>0, <2>1 DEF UpdateInv, TypeOK
  <2>4. RowsRight' /\ Promised' /\ OfThisEvening'
    BY <2>1, <2>2 DEF UpdateInv, RowsRight, Promised, OfThisEvening, Today
  <2>5. WorkerKnows' /\ PassMeansPromoted'
    BY <1>0, <2>1, <2>2 DEF UpdateInv, WorkerKnows, PassMeansPromoted
  <2> QED
    BY <2>3, <2>4, <2>5 DEF UpdateInv
<1>5. ASSUME NEW p \in Process,
             \/ Skips(p) \/ RunsDry(p) \/ FindsShut(p)
             \/ Blocked(p) \/ Breaks(p) \/ Passes(p)
      PROVE  UpdateInv'
  <2>1. PICK from \in Running, status \in Status :
          Finish(p, from, status) /\ (status = "PASS" => from = "report")
    BY <1>5 DEF Skips, RunsDry, FindsShut, Blocked, Breaks, Passes, Status
  <2> QED
    BY <2>1, FinishInv
<1>6. ASSUME NEW p \in Process, Starts(p) \/ Rewrites(p) \/ Opens(p) PROVE UpdateInv'
  <2>1. /\ \/ pc[p] = "begin" /\ pc' = [pc EXCEPT ![p] = "stages"] /\ emptied' = emptied
           \/ pc[p] = "stages" /\ pc' = [pc EXCEPT ![p] = "copy"] /\ emptied' = emptied
           \/ pc[p] = "copy" /\ pc' = [pc EXCEPT ![p] = "promote"] /\ emptied' = TRUE
        /\ UNCHANGED <<clock, rows, final, cache, target, dry, row, kills, byHand>>
    BY <1>6 DEF Starts, Rewrites, Opens, Goes, table, config, job
  <2>2. \A q \in Process : /\ q # p => pc'[q] = pc[q]
                           /\ q = p => pc[q] \in Running /\ pc'[q] \in {"stages", "copy", "promote"}
    BY <1>0, <2>1
  <2>3. TypeOK'
    BY <1>0, <2>1 DEF UpdateInv, TypeOK
  <2>4. RowsRight' /\ Promised' /\ OfThisEvening'
    BY <2>1, <2>2 DEF UpdateInv, RowsRight, Promised, OfThisEvening, Today
  <2>5. WorkerKnows' /\ PassMeansPromoted'
    BY <1>0, <2>1, <2>2 DEF UpdateInv, WorkerKnows, PassMeansPromoted
  <2> QED
    BY <2>3, <2>4, <2>5 DEF UpdateInv
<1>7. ASSUME NEW p \in Process, Kill(p) PROVE UpdateInv'
  <2>1. /\ pc' = [pc EXCEPT ![p] = "off"] /\ kills' = kills + 1
        /\ cache' = [cache EXCEPT ![p] = Unread] /\ target' = [target EXCEPT ![p] = 0]
        /\ dry' = [dry EXCEPT ![p] = FALSE] /\ row' = [row EXCEPT ![p] = 0]
        /\ UNCHANGED <<clock, rows, final, emptied, byHand>>
    BY <1>7 DEF Kill, Forgets, table, config
  <2>2. \A q \in Process : /\ q # p => /\ pc'[q] = pc[q] /\ cache'[q] = cache[q]
                                       /\ target'[q] = target[q] /\ row'[q] = row[q]
                           /\ q = p => pc'[q] = "off"
    BY <1>0, <2>1
  <2>3. TypeOK'
    BY <1>0, <2>1 DEF UpdateInv, TypeOK
  <2>4. RowsRight' /\ Promised' /\ OfThisEvening'
    BY <2>1, <2>2 DEF UpdateInv, RowsRight, Promised, OfThisEvening, Today
  <2>5. WorkerKnows' /\ PassMeansPromoted'
    BY <1>0, <2>1, <2>2 DEF UpdateInv, WorkerKnows, PassMeansPromoted
  <2> QED
    BY <2>3, <2>4, <2>5 DEF UpdateInv
<1>8. CASE Restore \/ UNCHANGED vars
  <2>1. /\ emptied' \in BOOLEAN
        /\ UNCHANGED <<clock, rows, final, pc, cache, target, dry, row, kills, byHand>>
    BY <1>0, <1>8 DEF Restore, vars, table, config, job
  <2> QED
    BY <2>1 DEF UpdateInv, TypeOK, RowsRight, Promised, OfThisEvening, Today, WorkerKnows,
       PassMeansPromoted
<1>9. CASE Pass
  <2>1. /\ clock' = clock + 1
        /\ (clock + 1) % DayLength = 0 => \A p \in Process : pc[p] \in {"off", "idle", "blind"}
        /\ UNCHANGED <<rows, final, emptied, pc, cache, target, dry, row, kills, byHand>>
    BY <1>9 DEF Pass, config, job
  <2>2. /\ Today' \in Nat /\ Today' >= Today
        /\ (clock + 1) % DayLength # 0 => Today' = Today
    <3>1. Today' = (clock + 1) \div DayLength
      BY <2>1 DEF Today
    <3> QED
      BY <1>0, <1>1, <3>1, DaysPass
  <2>3. TypeOK'
    BY <1>0, <2>1 DEF UpdateInv, TypeOK
  <2>4. RowsRight' /\ Promised' /\ WorkerKnows' /\ PassMeansPromoted'
    BY <2>1 DEF UpdateInv, RowsRight, Promised, WorkerKnows, PassMeansPromoted
  <2>5. OfThisEvening'
    <3>1. final \in Nat /\ Today \in Nat /\ final <= Today
      BY <1>0, <1>1 DEF UpdateInv, OfThisEvening, TypeOK
    <3>2. final' <= Today'
      BY <2>1, <2>2, <3>1
    <3>3. \A p \in Process : pc'[p] \in Running \cup {"create"} => Today' = Today
      BY <2>1, <2>2 DEF Running
    <3>4. \A p \in Process : pc[p] \in Running \cup {"create"} => target[p] = Today
      BY DEF UpdateInv, OfThisEvening
    <3>5. \A p \in Process : pc'[p] \in Running \cup {"create"} => target'[p] = Today'
      BY <2>1, <3>3, <3>4
    <3> QED
      BY <3>2, <3>5 DEF OfThisEvening
  <2> QED
    BY <2>3, <2>4, <2>5 DEF UpdateInv
<1> QED
  BY <1>2, <1>3, <1>4, <1>5, <1>6, <1>7, <1>8, <1>9, CreateInv, PromotedInv, Zenon DEF Next, Step

\* Every variable keeps its type.
THEOREM TypeCorrect == Spec => []TypeOK
<1>1. UpdateInv => TypeOK
  BY DEF UpdateInv
<1> QED
  BY InitUpdateInv, NextUpdateInv, <1>1, PTL DEF Spec

\* A row that says PASS is not ahead of the data set (PassMeansPromoted).
THEOREM PassIsPromoted == Spec => []PassMeansPromoted
<1>1. UpdateInv => PassMeansPromoted
  BY DEF UpdateInv
<1> QED
  BY InitUpdateInv, NextUpdateInv, <1>1, PTL DEF Spec

\* The end of the data set never moves back.
THEOREM FinalNeverBack == Spec => [][final' >= final]_vars
<1>1. UpdateInv /\ [Next]_vars => final' >= final \/ UNCHANGED vars
  <2> SUFFICES ASSUME UpdateInv, Next PROVE final' >= final
    OBVIOUS
  <2>1. final \in Nat
    BY DEF UpdateInv, TypeOK
  <2>2. final' = final \/ \E p \in Process : Promoted(p)
    BY Zenon DEF Next, Step, Launch, Rereads, Loads, Decide, Declines, Create, Skips, RunsDry, FindsShut, Starts,
       Blocked, Breaks, Rewrites, Opens, Passes, Finish, Kill, Restore, Pass, config
  <2> QED
    BY <2>1, <2>2, PromotedInv
<1> QED
  BY InitUpdateInv, NextUpdateInv, <1>1, PTL DEF Spec

\* An update of a target that has been promoted has an operator's run of that target
\* behind it (RepeatNeedsOperator).
THEOREM RepeatByHandOnly == Spec => RepeatNeedsOperator
<1>1. UpdateInv /\ [Next]_vars =>
        \A p \in Process : pc[p] = "begin" /\ pc'[p] = "stages" /\ target[p] <= final
          => target[p] \in byHand
  <2> SUFFICES ASSUME UpdateInv, [Next]_vars, NEW p \in Process,
                      pc[p] = "begin", pc'[p] = "stages", target[p] <= final
               PROVE  target[p] \in byHand
    OBVIOUS
  <2>1. CASE p # Worker
    BY <2>1 DEF UpdateInv, RowsRight, Running
  <2>2. CASE p = Worker
    <3>1. target[p] = Today /\ final <= Today /\ final \in Nat /\ target[p] \in Nat
           /\ cache[p] \in Nat \cup {Unread}
      BY DEF UpdateInv, OfThisEvening, TypeOK, Running
    <3>2. target[p] = final
      BY <3>1
    <3>3. Starts(p)
      <4>1. ASSUME NEW q \in Process, pc' = [pc EXCEPT ![q] = "stages"] PROVE q = p
        BY <4>1 DEF UpdateInv, TypeOK
      <4>2. pc' # pc
        OBVIOUS
      <4>3. \E q \in Process : Starts(q)
        <5>1. pc \in [Process -> {"off", "blind", "idle", "create"} \cup Running]
          BY DEF UpdateInv, TypeOK
        <5>2. ASSUME NEW q \in Process, NEW v, pc' = [pc EXCEPT ![q] = v], v # "stages" PROVE FALSE
          BY <5>1, <5>2
        <5>3. ~\E q \in Process : Launch(q) \/ Rereads(q) \/ Kill(q)
          BY <5>2 DEF Launch, Rereads, Loads, Kill
        <5>4. ~\E q \in Process : Declines(q) \/ \E force, dryRun \in BOOLEAN : Decide(q, force, dryRun)
          BY <5>2 DEF Declines, Decide, Goes
        <5>5. ~\E q \in Process : Create(q) \/ Rewrites(q) \/ Opens(q) \/ Promoted(q)
          BY <5>2 DEF Create, Rewrites, Opens, Promoted, Goes
        <5>6. ~\E q \in Process : \/ Skips(q) \/ RunsDry(q) \/ FindsShut(q)
                                  \/ Blocked(q) \/ Breaks(q) \/ Passes(q)
          BY <5>2 DEF Skips, RunsDry, FindsShut, Blocked, Breaks, Passes, Finish, Goes
        <5>7. ~Restore /\ ~Pass /\ ~UNCHANGED vars
          BY <4>2, Zenon DEF Restore, Pass, vars
        <5> QED
          BY <5>3, <5>4, <5>5, <5>6, <5>7, Zenon DEF Next, Step
      <4> QED
        BY <4>1, <4>3 DEF Starts, Goes
    <3>4. cache[p] < target[p] /\ cache[p] # Unread
      BY <2>2, <3>1, <3>3 DEF Starts, Covered, Unread, UpdateInv, WorkerKnows
    <3> QED
      BY <2>2, <3>1, <3>2, <3>4 DEF UpdateInv, WorkerKnows
  <2> QED
    BY <2>1, <2>2
<1> QED
  BY InitUpdateInv, NextUpdateInv, <1>1, PTL DEF Spec, RepeatNeedsOperator

-----------------------------------------------------------------------------
(***************************************************************************)
(* The job table and the end of the data set implement DatasetLedger.      *)
(* This rests on one more invariant: an update under way has a row of its  *)
(* own, which is open and which no other process writes.                   *)
(***************************************************************************)
OwnRows ==
  \A p \in Process :
    pc[p] \in Running => /\ rows[row[p]].status = "RUNNING"
                         /\ \A q \in Process : q # p /\ pc[q] \in Running => row[q] # row[p]

\* No process keeps a copy of the configuration that is ahead of it.
CachesBehind == \A p \in Process : cache[p] <= final

LedgerInv == UpdateInv /\ OwnRows /\ CachesBehind /\ Len(rows) <= MaxRuns

\* Initially no update is under way and no configuration is loaded.
LEMMA InitLedgerInv == Init => LedgerInv
<1> SUFFICES ASSUME Init PROVE OwnRows /\ CachesBehind /\ Len(rows) <= MaxRuns
  BY InitUpdateInv DEF LedgerInv
<1> QED
  BY UpdateAssumption DEF Init, OwnRows, CachesBehind, Running, Unread

\* What create_run does to the table.
LEMMA CreateRows ==
  ASSUME UpdateInv, NEW p \in Process, Create(p)
  PROVE  /\ rows' \in Seq(Row) /\ DOMAIN rows = 1 .. Len(rows) /\ Len(rows) \in Nat
         /\ DOMAIN rows' = 1 .. Len(rows) + 1 /\ Len(rows) + 1 \in 1 .. MaxRuns
         /\ \A i \in DOMAIN rows : rows'[i] = rows[i]
         /\ rows'[Len(rows) + 1].target = Today /\ rows'[Len(rows) + 1].status = "RUNNING"
         /\ pc' = [pc EXCEPT ![p] = "begin"] /\ row' = [row EXCEPT ![p] = Len(rows) + 1]
         /\ final' = final /\ clock' = clock /\ cache' = cache
<1>1. /\ pc[p] = "create" /\ pc' = [pc EXCEPT ![p] = "begin"] /\ Len(rows) < MaxRuns
      /\ rows' = Append(rows, [target |-> target[p], status |-> "RUNNING", started |-> clock])
      /\ row' = [row EXCEPT ![p] = Len(rows) + 1]
      /\ final' = final /\ clock' = clock /\ cache' = cache
  BY DEF Create, Goes, config
<1>2. /\ rows \in Seq(Row) /\ Len(rows) \in Nat /\ clock \in Nat /\ target[p] \in Nat
      /\ target[p] = Today
  BY <1>1 DEF UpdateInv, TypeOK, OfThisEvening
<1>3. [target |-> target[p], status |-> "RUNNING", started |-> clock] \in Row
  BY <1>2 DEF Row, Status
<1>4. Len(rows) + 1 \in 1 .. MaxRuns
  BY <1>1, <1>2, UpdateAssumption
<1>5. /\ rows' \in Seq(Row) /\ DOMAIN rows = 1 .. Len(rows) /\ DOMAIN rows' = 1 .. Len(rows) + 1
      /\ \A i \in DOMAIN rows : rows'[i] = rows[i]
      /\ rows'[Len(rows) + 1] = [target |-> target[p], status |-> "RUNNING", started |-> clock]
  BY <1>1, <1>2, <1>3
<1> QED
  BY <1>1, <1>2, <1>4, <1>5

\* The processes under way after a step that touches neither rows nor their
\* owners.
LEMMA OwnersKept ==
  ASSUME UpdateInv, OwnRows, rows' = rows,
         \A q \in Process : pc'[q] \in Running => pc[q] \in Running /\ row'[q] = row[q]
  PROVE  OwnRows'
BY DEF OwnRows

\* Every step keeps it.
LEMMA NextLedgerInv == LedgerInv /\ [Next]_vars => LedgerInv'
<1> DEFINE Kept == OwnRows' /\ CachesBehind' /\ Len(rows') <= MaxRuns
<1> SUFFICES ASSUME LedgerInv, [Next]_vars PROVE Kept
  BY NextUpdateInv DEF LedgerInv
<1>0. /\ pc \in [Process -> {"off", "blind", "idle", "create"} \cup Running]
      /\ cache \in [Process -> Nat \cup {Unread}] /\ row \in [Process -> 0 .. Len(rows)]
      /\ final \in Nat /\ Len(rows) \in Nat /\ Worker \in Process
      /\ Len(rows) <= MaxRuns /\ UpdateInv /\ OwnRows /\ \A p \in Process : cache[p] <= final
  BY DEF LedgerInv, UpdateInv, TypeOK, Process, CachesBehind
<1>1. ASSUME NEW p \in Process, Launch(p) \/ Rereads(p) \/ Declines(p) \/ Kill(p)
      PROVE  Kept
  <2>1. /\ \E step \in {"blind", "idle", "off"} : pc' = [pc EXCEPT ![p] = step]
        /\ cache' = [cache EXCEPT ![p] = final] \/ cache' = [cache EXCEPT ![p] = Unread]
        /\ row' = row \/ row' = [row EXCEPT ![p] = 0]
        /\ rows' = rows /\ final' = final
    BY <1>1 DEF Launch, Rereads, Loads, Declines, Kill, Forgets, table, config, job
  <2>2. CachesBehind'
    BY <1>0, <2>1 DEF CachesBehind, Unread
  <2>3. \A q \in Process : pc'[q] \in Running => pc[q] \in Running /\ row'[q] = row[q]
    BY <1>0, <2>1 DEF Running
  <2> QED
    BY <1>0, <2>1, <2>2, <2>3, OwnersKept
<1>2. ASSUME NEW p \in Process,
             \/ \E force, dryRun \in BOOLEAN : Decide(p, force, dryRun)
             \/ Starts(p) \/ Rewrites(p) \/ Opens(p)
      PROVE  Kept
  <2>1. /\ \/ pc' = [pc EXCEPT ![p] = "create"]
           \/ \E step \in {"stages", "copy", "promote"} : pc[p] \in Running /\ pc' = [pc EXCEPT ![p] = step]
        /\ cache' = cache /\ row' = row /\ rows' = rows /\ final' = final
    BY <1>2 DEF Decide, Starts, Rewrites, Opens, Goes, table, config, job, Running
  <2>2. \A q \in Process : pc'[q] \in Running => pc[q] \in Running /\ row'[q] = row[q]
    BY <1>0, <2>1 DEF Running
  <2> QED
    BY <1>0, <2>1, <2>2, OwnersKept DEF CachesBehind
<1>3. ASSUME NEW p \in Process, Create(p)
      PROVE  Kept
  <2>1. /\ DOMAIN rows = 1 .. Len(rows) /\ Len(rows') <= MaxRuns
        /\ \A i \in DOMAIN rows : rows'[i] = rows[i]
        /\ rows'[Len(rows) + 1].status = "RUNNING"
        /\ pc' = [pc EXCEPT ![p] = "begin"] /\ row' = [row EXCEPT ![p] = Len(rows) + 1]
        /\ final' = final /\ cache' = cache
    <3>1. rows' \in Seq(Row) /\ DOMAIN rows' = 1 .. Len(rows) + 1 /\ Len(rows) + 1 <= MaxRuns
      BY <1>0, <1>3, CreateRows, UpdateAssumption
    <3>2. Len(rows') = Len(rows) + 1
      BY <1>0, <3>1
    <3> QED
      BY <1>0, <1>3, <3>1, <3>2, CreateRows
  <2>2. \A q \in Process : q # p => pc'[q] = pc[q] /\ row'[q] = row[q]
    BY <1>0, <2>1
  <2>3. row'[p] = Len(rows) + 1
    BY <1>0, <2>1
  <2>4. \A q \in Process : pc[q] \in Running => row[q] \in 1 .. Len(rows)
    BY <1>0, <2>1 DEF UpdateInv, RowsRight
  <2>5. ASSUME NEW q \in Process, pc'[q] \in Running
        PROVE  /\ rows'[row'[q]].status = "RUNNING"
               /\ \A t \in Process : t # q /\ pc'[t] \in Running => row'[t] # row'[q]
    <3>1. CASE q = p
      BY <1>0, <2>1, <2>2, <2>3, <2>4, <3>1
    <3>2. CASE q # p
      BY <1>0, <2>1, <2>2, <2>3, <2>4, <2>5, <3>2 DEF OwnRows
    <3> QED
      BY <3>1, <3>2
  <2> QED
    BY <1>0, <2>1, <2>5 DEF OwnRows, CachesBehind
<1>4. ASSUME NEW p \in Process, NEW from \in Running, NEW outcome \in Status,
             Finish(p, from, outcome)
      PROVE  Kept
  <2>1. /\ \A i \in DOMAIN rows : i # row[p] => rows'[i] = rows[i]
        /\ Len(rows') = Len(rows)
    BY <1>0, <1>4, FinishRows
  <2>2. /\ pc[p] \in Running
        /\ \E step \in {"idle", "off"} : pc' = [pc EXCEPT ![p] = step]
        /\ cache' = cache \/ cache' = [cache EXCEPT ![p] = Unread]
        /\ row' = [row EXCEPT ![p] = 0] /\ final' = final
    BY <1>4 DEF Finish, Goes, Forgets, config
  <2>3. \A q \in Process : /\ q # p => pc'[q] = pc[q] /\ row'[q] = row[q]
                           /\ pc'[q] \in Running => q # p
    BY <1>0, <2>2 DEF Running
  <2>4. \A q \in Process : pc[q] \in Running => row[q] \in DOMAIN rows
    BY <1>0 DEF UpdateInv, RowsRight
  <2>5. OwnRows'
    BY <1>0, <2>1, <2>2, <2>3, <2>4 DEF OwnRows
  <2> QED
    BY <1>0, <2>1, <2>2, <2>5 DEF CachesBehind, Unread
<1>5. ASSUME NEW p \in Process, \/ Skips(p) \/ RunsDry(p) \/ FindsShut(p)
                                \/ Blocked(p) \/ Breaks(p) \/ Passes(p)
      PROVE  Kept
  <2>1. PICK from \in Running, outcome \in Status : Finish(p, from, outcome)
    BY <1>5 DEF Skips, RunsDry, FindsShut, Blocked, Breaks, Passes, Status, Running
  <2> QED
    BY <2>1, <1>4
<1>6. ASSUME NEW p \in Process, Promoted(p)
      PROVE  Kept
  <2>1. /\ pc[p] \in Running /\ pc' = [pc EXCEPT ![p] = "report"]
        /\ final' = target[p] /\ cache' = [cache EXCEPT ![p] = Unread]
        /\ rows' = rows /\ row' = row /\ target[p] \in Nat
    BY <1>0, <1>6 DEF Promoted, Goes, table, job, Running, UpdateInv, TypeOK
  <2>2. final' >= final
    BY <1>0, <1>6, PromotedInv
  <2>3. \A q \in Process : cache'[q] <= final'
    BY <1>0, <2>1, <2>2 DEF Unread
  <2>4. \A q \in Process : pc'[q] \in Running => pc[q] \in Running /\ row'[q] = row[q]
    BY <1>0, <2>1 DEF Running
  <2> QED
    BY <1>0, <2>1, <2>3, <2>4, OwnersKept DEF CachesBehind
<1>7. CASE Restore \/ Pass \/ UNCHANGED vars
  <2>1. UNCHANGED <<rows, final, pc, cache, row>>
    BY <1>7 DEF Restore, Pass, vars, table, config, job
  <2> QED
    BY <1>0, <2>1 DEF OwnRows, CachesBehind
<1> QED
  BY <1>1, <1>2, <1>3, <1>5, <1>6, <1>7, Zenon DEF Next, Step
\* create_run opens a job for this evening.
LEMMA CreateOpens ==
  ASSUME UpdateInv, NEW p \in Process, Create(p)
  PROVE  \E j \in 1 .. MaxRuns : Ledger!Open(j)
<1>a. PICK j \in 1 .. MaxRuns : j = Len(rows) + 1
  BY CreateRows
<1>1. /\ DOMAIN rows = 1 .. Len(rows) /\ Len(rows) \in Nat /\ DOMAIN rows' = DOMAIN rows \cup {j}
      /\ j \notin DOMAIN rows /\ j \in 1 .. MaxRuns
      /\ \A i \in DOMAIN rows : rows'[i] = rows[i]
      /\ rows'[j].target = Today /\ rows'[j].status = "RUNNING"
      /\ final' = final /\ clock' = clock
  <2>1. /\ DOMAIN rows = 1 .. Len(rows) /\ Len(rows) \in Nat /\ DOMAIN rows' = 1 .. Len(rows) + 1
        /\ \A i \in DOMAIN rows : rows'[i] = rows[i]
        /\ rows'[j].target = Today /\ rows'[j].status = "RUNNING"
        /\ final' = final /\ clock' = clock
    BY <1>a, CreateRows
  <2> QED
    BY <1>a, <2>1
<1>2. /\ Evenings' = Ledger!With(Evenings, j, Today)
      /\ Endings' = Ledger!With(Endings, j, "RUNNING")
  BY <1>1 DEF Ledger!With, Evenings, Endings
<1>3. Today' = Today
  BY <1>1 DEF Today
<1> QED
  BY <1>1, <1>2, <1>3 DEF Ledger!Open, Ledger!Opened, Endings

\* A process with an update under way has a job under way.
LEMMA ProcessUnderWay ==
  ASSUME LedgerInv, NEW p \in Process, pc[p] \in Running
  PROVE  /\ Ledger!UnderWay(row[p]) /\ row[p] \in 1 .. MaxRuns
         /\ row[p] \in DOMAIN rows /\ rows[row[p]].target = target[p] /\ target[p] = Today
<1>1. /\ row[p] \in DOMAIN rows /\ rows[row[p]].target = target[p] /\ target[p] = Today
      /\ rows[row[p]].status = "RUNNING"
  BY DEF LedgerInv, OwnRows, UpdateInv, RowsRight, OfThisEvening, Running
<1>2. row[p] \in 1 .. MaxRuns
  <2>1. rows \in Seq(Row) /\ Len(rows) <= MaxRuns
    BY DEF LedgerInv, UpdateInv, TypeOK
  <2> QED
    BY <1>1, <2>1, UpdateAssumption
<1> QED
  BY <1>1, <1>2 DEF Ledger!UnderWay, Ledger!Opened, Evenings, Endings

\* finish_run settles the job of its process.
LEMMA FinishSettles ==
  ASSUME LedgerInv, NEW p \in Process, NEW from \in Running, NEW outcome \in Status,
         Finish(p, from, outcome), outcome = "PASS" => from = "report"
  PROVE  \E j \in 1 .. MaxRuns : Ledger!Settle(j, outcome)
<1>a. pc[p] = from /\ final' = final /\ clock' = clock
  BY DEF Finish, Goes, config
<1>b. PICK j \in 1 .. MaxRuns : j = row[p]
  BY <1>a, ProcessUnderWay
<1>1. /\ pc[p] = from /\ final' = final /\ clock' = clock
      /\ DOMAIN rows' = DOMAIN rows /\ j \in DOMAIN rows
      /\ \A i \in DOMAIN rows : /\ rows'[i].target = rows[i].target
                                /\ i # j => rows'[i] = rows[i]
      /\ rows'[j].status = outcome
  BY <1>a, <1>b, FinishRows DEF LedgerInv
<1>2. Ledger!UnderWay(j) /\ rows[j].target = target[p] /\ target[p] = Today
  BY <1>1, <1>b, ProcessUnderWay
<1>3. outcome = "PASS" => final = rows[j].target
  <2>1. final <= Today /\ final \in Nat /\ clock \in Nat
    BY DEF LedgerInv, UpdateInv, OfThisEvening, TypeOK
  <2>2. Today \in Nat
    BY <2>1, DaysPass
  <2>3. pc[p] = "report" => target[p] <= final
    BY DEF LedgerInv, UpdateInv, Promised
  <2> QED
    BY <1>1, <1>2, <2>1, <2>2, <2>3
<1>4. Evenings' = Evenings /\ Endings' = Ledger!With(Endings, j, outcome)
  BY <1>1 DEF Ledger!With, Evenings, Endings
<1>5. Today' = Today
  BY <1>1 DEF Today
<1> QED
  BY <1>1, <1>2, <1>3, <1>4, <1>5 DEF Ledger!Settle, Evenings
\* The promotion is that of the job of its process.
LEMMA PromotedMoves ==
  ASSUME LedgerInv, NEW p \in Process, Promoted(p)
  PROVE  \E j \in 1 .. MaxRuns : Ledger!Promote(j)
<1>1. /\ pc[p] \in Running /\ final' = target[p] /\ rows' = rows /\ clock' = clock
  BY DEF Promoted, Goes, table, Running
<1>2. PICK j \in 1 .. MaxRuns : j = row[p]
  BY <1>1, ProcessUnderWay
<1>3. Ledger!UnderWay(j) /\ j \in DOMAIN rows /\ rows[j].target = target[p]
  BY <1>1, <1>2, ProcessUnderWay
<1>4. Today' = Today
  BY <1>1 DEF Today
<1> QED
  BY <1>1, <1>3, <1>4 DEF Ledger!Promote, Evenings, Endings

\* The first state is the first state of the ledger.
LEMMA InitLedger == Init => Ledger!Init
<1> SUFFICES ASSUME Init PROVE Ledger!Init
  OBVIOUS
<1>1. final = 0 /\ DOMAIN rows = {}
  BY DEF Init
<1>2. Today = 1
  <2>1. DayLength \in Nat /\ DayLength > 0 /\ clock = DayLength
    BY UpdateAssumption DEF Init
  <2>2. DayLength \div DayLength = 1
    BY <2>1, Z3
  <2> QED
    BY <2>1, <2>2 DEF Today
<1> QED
  BY <1>1, <1>2 DEF Ledger!Init, Evenings, Endings

\* Every step is a step of the ledger or leaves it as it is.
LEMMA NextLedger ==
  ASSUME LedgerInv, [Next]_vars
  PROVE  [Ledger!Next]_(Ledger!lvars)
<1>1. ASSUME NEW p \in Process, Create(p)
      PROVE  Ledger!Next
  BY <1>1, CreateOpens DEF LedgerInv, Ledger!Next
<1>2. ASSUME NEW p \in Process, \/ Skips(p) \/ RunsDry(p) \/ FindsShut(p)
                                \/ Blocked(p) \/ Breaks(p) \/ Passes(p)
      PROVE  Ledger!Next
  <2>1. PICK from \in Running, outcome \in Status \ {"RUNNING"} :
          Finish(p, from, outcome) /\ (outcome = "PASS" => from = "report")
    BY <1>2 DEF Skips, RunsDry, FindsShut, Blocked, Breaks, Passes, Status, Running
  <2>2. \E j \in 1 .. MaxRuns : Ledger!Settle(j, outcome)
    BY <2>1, FinishSettles
  <2> QED
    BY <2>2 DEF Ledger!Next
<1>3. ASSUME NEW p \in Process, Promoted(p)
      PROVE  Ledger!Next
  BY <1>3, PromotedMoves DEF Ledger!Next
<1>4. CASE Pass
  <2>1. clock \in Nat /\ clock' = clock + 1 /\ rows' = rows /\ final' = final
    BY <1>4 DEF Pass, config, LedgerInv, UpdateInv, TypeOK
  <2>2. Today' \in {Today, Today + 1}
    BY <2>1, DaysPass DEF Today
  <2>3. CASE Today' = Today
    BY <2>1, <2>3 DEF Ledger!lvars, Evenings, Endings
  <2>4. CASE Today' = Today + 1
    BY <2>1, <2>4 DEF Ledger!Next, Ledger!NextEvening, Evenings, Endings
  <2> QED
    BY <2>2, <2>3, <2>4
<1>5. ASSUME UNCHANGED <<clock, rows, final>>
      PROVE  UNCHANGED Ledger!lvars
  BY <1>5 DEF Ledger!lvars, Today, Evenings, Endings
<1>6. ASSUME NEW p \in Process, \/ Launch(p) \/ Rereads(p) \/ Declines(p) \/ Kill(p)
                                \/ Starts(p) \/ Rewrites(p) \/ Opens(p)
                                \/ \E force, dryRun \in BOOLEAN : Decide(p, force, dryRun)
      PROVE  UNCHANGED Ledger!lvars
  BY <1>5, <1>6 DEF Launch, Rereads, Loads, Declines, Kill, Starts, Rewrites, Opens, Decide, table, config
<1>7. CASE Restore \/ UNCHANGED vars
  BY <1>5, <1>7 DEF Restore, vars, table, config
<1> QED
  BY <1>1, <1>2, <1>3, <1>4, <1>6, <1>7, Zenon DEF Next, Step

\* The job table and the end of the data set behave as DatasetLedger promises
\* (LedgerSpec), however many processes an operator starts and whenever any of
\* them dies.
THEOREM ImplementsLedger == Spec => LedgerSpec
BY InitLedgerInv, NextLedgerInv, InitLedger, NextLedger, PTL DEF Spec, LedgerSpec, Ledger!Spec

\* The types of the ledger.
LedgerTypes ==
  Today \in Nat /\ final \in Nat /\ Evenings \in [DOMAIN Endings -> Nat]

\* What a step of the ledger keeps, and what it may not do.
LedgerStep ==
  \/ UNCHANGED Ledger!lvars
  \/ /\ final' >= final
     /\ \A j \in Ledger!Opened :
          /\ j \in Ledger!Opened' /\ Evenings'[j] = Evenings[j]
          /\ Endings[j] # "RUNNING" \/ Evenings[j] # Today => Endings'[j] = Endings[j]

\* The steps of DatasetLedger keep its promises, whatever implements it.
LEMMA LedgerKeeps ==
  ASSUME LedgerTypes, Ledger!GateAccounted, [Ledger!Next]_(Ledger!lvars)
  PROVE  LedgerTypes' /\ Ledger!GateAccounted' /\ LedgerStep
<1> USE DEF LedgerTypes, Ledger!GateAccounted, LedgerStep, Ledger!Opened
<1>1. ASSUME NEW j \in 1 .. MaxRuns, Ledger!Open(j)
      PROVE  LedgerTypes' /\ Ledger!GateAccounted' /\ LedgerStep
  BY <1>1 DEF Ledger!Open, Ledger!With
<1>2. ASSUME NEW j \in 1 .. MaxRuns, Ledger!Promote(j)
      PROVE  LedgerTypes' /\ Ledger!GateAccounted' /\ LedgerStep
  BY <1>2 DEF Ledger!Promote, Ledger!UnderWay
<1>3. ASSUME NEW j \in 1 .. MaxRuns, NEW outcome \in Status \ {"RUNNING"}, Ledger!Settle(j, outcome)
      PROVE  LedgerTypes' /\ Ledger!GateAccounted' /\ LedgerStep
  BY <1>3 DEF Ledger!Settle, Ledger!UnderWay, Ledger!With
<1>4. CASE Ledger!NextEvening
  BY <1>4 DEF Ledger!NextEvening
<1>5. CASE UNCHANGED Ledger!lvars
  BY <1>5 DEF Ledger!lvars
<1> QED
  BY <1>1, <1>2, <1>3, <1>4, <1>5 DEF Ledger!Next

\* The data set ends where some job of the table has brought it and never
\* short of one that passed; it loses no days, a job that has ended never says
\* anything else, and one left open by an earlier evening is never taken for
\* done (GateAccounted, NothingTakenBack).
THEOREM LedgerHolds == Ledger!Spec => []Ledger!GateAccounted /\ Ledger!NothingTakenBack
<1>1. Ledger!Init => LedgerTypes /\ Ledger!GateAccounted
  BY DEF Ledger!Init, LedgerTypes, Ledger!GateAccounted, Ledger!Opened
<1>2. LedgerTypes /\ Ledger!GateAccounted /\ [Ledger!Next]_(Ledger!lvars)
        => LedgerTypes' /\ Ledger!GateAccounted'
  BY LedgerKeeps
<1>3. LedgerTypes /\ Ledger!GateAccounted /\ [Ledger!Next]_(Ledger!lvars)
        => [/\ final' >= final
            /\ \A j \in Ledger!Opened :
                 /\ j \in Ledger!Opened' /\ Evenings'[j] = Evenings[j]
                 /\ Endings[j] # "RUNNING" \/ Evenings[j] # Today
                      => Endings'[j] = Endings[j]]_(Ledger!lvars)
  BY LedgerKeeps DEF LedgerStep
<1> QED
  BY <1>1, <1>2, <1>3, PTL DEF Ledger!Spec, Ledger!NothingTakenBack

\* The processes of the nightly update keep the promises of the ledger.
THEOREM UpdatesAccounted == Spec => []Ledger!GateAccounted /\ Ledger!NothingTakenBack
BY ImplementsLedger, LedgerHolds, PTL DEF LedgerSpec

\* The worker, once it runs with a configuration, finds a target that a dead
\* process left RUNNING due: its guard is open in every state in which CatchesUp
\* asks it to act, once its tick has read the file, and only fairness is left to make it act.
THEOREM AbandonedIsDue == Spec => [](Abandoned /\ cache[Worker] # Unread => Due(Worker))
<1>1. ASSUME LedgerInv, Abandoned, cache[Worker] # Unread
      PROVE  Due(Worker)
  <2>1. cache[Worker] \in Nat /\ final \in Nat /\ Today \in Nat /\ cache[Worker] <= final
    BY <1>1, DaysPass DEF LedgerInv, UpdateInv, TypeOK, CachesBehind, Process
  <2> QED
    BY <1>1, <2>1 DEF Abandoned, Due
<1> QED
  BY <1>1, InitLedgerInv, NextLedgerInv, PTL DEF Spec
=============================================================================
