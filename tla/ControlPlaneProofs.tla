------------------------- MODULE ControlPlaneProofs -------------------------
(***************************************************************************)
(* Theorems about the parts of the system that administer a fleet, for any *)
(* number of callers, rows, values, files and faults: the device registry  *)
(* (DeviceRegistry), the second factor (SecondFactor), database migrations *)
(* (Migrations), the allow-list cache of an ingest node (AllowListCache),  *)
(* the caches of the telemetry consumer (DeviceLookup), notification       *)
(* settings (Notifications) and groups (Departments).                      *)
(***************************************************************************)
EXTENDS MCControlPlane, Integers, FiniteSetTheorems, TLAPS

-----------------------------------------------------------------------------
(***************************************************************************)
(* The device registry.                                                    *)
(***************************************************************************)
\* What a request has read of the table holds on to the end of it: a request
\* past its quota check or update has an IMEI to publish, and one that names
\* a row names one that exists.  Rows are never erased.
WellFounded(g) ==
    LET named == req[g].row \in Rows /\ table[req[g].row] # None IN
    /\ req[g].step \notin {"idle", "replace"} => req[g].imei \in Imeis
    /\ req[g].step \in {"update", "delete", "undelete", "reread"} => named
    /\ req[g].step = "quota" /\ req[g].op # "provision" => named

RequestShape == \A g \in Requests : WellFounded(g)

\* The uniqueness of live rows, without counting them.
LiveRowsDiffer ==
    \A r, s \in Rows :
        LiveRow(r) /\ LiveRow(s) /\ table[r].imei = table[s].imei => r = s

RegistryInv == TypeOK /\ RequestShape /\ LiveRowsDiffer

-----------------------------------------------------------------------------
\* The notes of a request that begins, of those it overlaps, and of the rest.
LEMMA BeginShape ==
    ASSUME RegistryInv, NEW g \in Requests, NEW op \in Op, NEW step \in Step,
           NEW r \in Rows \cup {None}, NEW i \in Imeis \cup {None},
           NEW sends \in BOOLEAN, NEW found \in SUBSET Imeis,
           Begin(g, op, step, r, i, sends, found),
           step \notin {"idle", "replace"} => i \in Imeis,
           step \in {"update", "delete", "undelete", "reread"} \/
               (step = "quota" /\ op # "provision") =>
               r \in Rows /\ table[r] # None
    PROVE  RegistryInv'
<1> DEFINE others == {h \in Requests : Touches(h, i)}
           new == [op |-> op, step |-> step, row |-> r, imei |-> i,
                   sends |-> sends, found |-> found, alone |-> others = {}]
<1>1. req' = [h \in Requests |->
                 IF h = g THEN new
                 ELSE IF h \in others THEN [req[h] EXCEPT !.alone = FALSE]
                 ELSE req[h]]
    BY DEF Begin
<1>2. (others = {}) \in BOOLEAN
    OBVIOUS
<1>3. new \in Request
    BY <1>2 DEF Request
<1>4. \A h \in Requests : req[h] \in Request
    BY DEF RegistryInv, TypeOK
<1>5. \A h \in Requests : [req[h] EXCEPT !.alone = FALSE] \in Request
    BY <1>4 DEF Request
<1>6. req' \in [Requests -> Request]
  <2> HIDE DEF new, others
  <2> QED
    BY <1>1, <1>3, <1>4, <1>5
<1>7. TypeOK'
    BY <1>6 DEF Begin, RegistryInv, TypeOK
<1>8. \A h \in Requests \ {g} :
          /\ req'[h].op = req[h].op /\ req'[h].step = req[h].step
          /\ req'[h].row = req[h].row /\ req'[h].imei = req[h].imei
  <2> HIDE DEF new, others
  <2> QED
    BY <1>1, <1>4 DEF Request
<1>9. /\ req'[g].op = op /\ req'[g].step = step
      /\ req'[g].row = r /\ req'[g].imei = i
    BY <1>1
<1>10. RequestShape'
  <2> HIDE DEF new, others
  <2> SUFFICES ASSUME NEW h \in Requests
               PROVE  WellFounded(h)'
    BY DEF RequestShape
  <2>1. CASE h = g
    BY <1>9, <2>1 DEF Begin, WellFounded
  <2>2. CASE h # g
    BY <1>8, <2>2 DEF Begin, RegistryInv, RequestShape, WellFounded
  <2> QED
    BY <2>1, <2>2
<1>11. LiveRowsDiffer'
    BY DEF Begin, RegistryInv, LiveRowsDiffer, LiveRow
<1> QED
    BY <1>7, <1>10, <1>11 DEF RegistryInv

\* A request that goes on, or ends, and a table in which no row is erased.
LEMMA StepKeeps ==
    ASSUME RegistryInv, NEW g \in Requests, NEW next \in Request,
           req' = [req EXCEPT ![g] = next],
           table' \in [Rows -> Device \cup {None}],
           \A r \in Rows : table[r] # None => table'[r] # None,
           LiveRowsDiffer', allow' \subseteq Imeis, aborts' \in 0..MaxAborts,
           done' = None \/ done' \in [op : Op, imei : Imeis \cup {None}, alone : BOOLEAN],
           WellFounded(g)'
    PROVE  RegistryInv'
<1>1. TypeOK'
    BY DEF RegistryInv, TypeOK
<1>2. RequestShape'
  <2> SUFFICES ASSUME NEW h \in Requests, h # g PROVE WellFounded(h)'
    BY DEF RequestShape
  <2>1. req'[h] = req[h]
    BY DEF RegistryInv, TypeOK
  <2>2. WellFounded(h)
    BY DEF RegistryInv, RequestShape
  <2> QED
    BY <2>1, <2>2 DEF WellFounded
<1> QED
    BY <1>1, <1>2 DEF RegistryInv

\* The same, the table being left alone.
LEMMA QuietStep ==
    ASSUME RegistryInv, NEW g \in Requests, NEW next \in Request,
           req' = [req EXCEPT ![g] = next], UNCHANGED table,
           allow' \subseteq Imeis, aborts' \in 0..MaxAborts,
           done' = None \/ done' \in [op : Op, imei : Imeis \cup {None}, alone : BOOLEAN],
           WellFounded(g)'
    PROVE  RegistryInv'
<1>1. LiveRowsDiffer'
    BY DEF RegistryInv, LiveRowsDiffer, LiveRow
<1>2. table' \in [Rows -> Device \cup {None}]
    BY DEF RegistryInv, TypeOK
<1> QED
    BY <1>1, <1>2, StepKeeps

\* A request at rest is a request, and may rest whatever the table is.
LEMMA AtRest ==
    ASSUME RegistryInv, NEW g \in Requests, req' = [req EXCEPT ![g] = Idle]
    PROVE  Idle \in Request /\ WellFounded(g)'
<1>1. Idle \in Request
    BY DEF Idle, Request, Op, Step
<1>2. req'[g] = Idle
    BY DEF RegistryInv, TypeOK
<1> QED
    BY <1>1, <1>2 DEF Idle, WellFounded

\* A request that only moves on keeps what it has read.
LEMMA MovedOn ==
    ASSUME RegistryInv, NEW g \in Requests, NEW step \in Step,
           req' = [req EXCEPT ![g].step = step]
    PROVE  \E next \in Request :
              /\ req' = [req EXCEPT ![g] = next]
              /\ req'[g] = next
              /\ next.step = step /\ next.op = req[g].op
              /\ next.row = req[g].row /\ next.imei = req[g].imei
              /\ next.alone = req[g].alone
<1>1. req[g] \in Request
    BY DEF RegistryInv, TypeOK
<1> DEFINE next == [req[g] EXCEPT !.step = step]
<1>2. next \in Request /\ req' = [req EXCEPT ![g] = next] /\ req'[g] = next
    BY <1>1 DEF RegistryInv, TypeOK, Request
<1>3. /\ next.step = step /\ next.op = req[g].op
      /\ next.row = req[g].row /\ next.imei = req[g].imei
      /\ next.alone = req[g].alone
    BY <1>1 DEF Request
<1> HIDE DEF next
<1> QED
    BY <1>2, <1>3

-----------------------------------------------------------------------------
\* A request that ends without writing.
LEMMA EndKeeps ==
    ASSUME RegistryInv, NEW g \in Requests, End(g), UNCHANGED <<table, allow>>,
           aborts' \in 0..MaxAborts
    PROVE  RegistryInv'
<1>1. Idle \in Request /\ WellFounded(g)'
    BY AtRest DEF End
<1>2. allow' \subseteq Imeis
    BY DEF RegistryInv, TypeOK
<1> QED
    BY <1>1, <1>2, QuietStep DEF End

\* A request that ends well, having perhaps written the allow-list.
LEMMA SucceedKeeps ==
    ASSUME RegistryInv, NEW g \in Requests, Succeed(g), UNCHANGED <<table, aborts>>,
           allow' \subseteq Imeis
    PROVE  RegistryInv'
<1>1. Idle \in Request /\ WellFounded(g)'
    BY AtRest DEF Succeed
<1>2. done' \in [op : Op, imei : Imeis \cup {None}, alone : BOOLEAN]
    BY DEF Succeed, RegistryInv, TypeOK, Request
<1>3. aborts' \in 0..MaxAborts
    BY DEF RegistryInv, TypeOK
<1> QED
    BY <1>1, <1>2, <1>3, QuietStep DEF Succeed

\* A request that moves on to a step it has what it takes for.
LEMMA AdvanceKeeps ==
    ASSUME RegistryInv, NEW g \in Requests, NEW step \in Step, Advance(g, step),
           table' \in [Rows -> Device \cup {None}],
           \A r \in Rows : table[r] # None => table'[r] # None,
           LiveRowsDiffer', UNCHANGED <<allow, aborts>>,
           step # "quota",
           req[g].imei \in Imeis,
           step \in {"update", "delete", "undelete", "reread"} =>
               req[g].row \in Rows /\ table[req[g].row] # None
    PROVE  RegistryInv'
<1>1. PICK next \in Request :
          /\ req' = [req EXCEPT ![g] = next]
          /\ req'[g] = next
          /\ next.step = step /\ next.op = req[g].op
          /\ next.row = req[g].row /\ next.imei = req[g].imei
          /\ next.alone = req[g].alone
    BY MovedOn DEF Advance
<1>2. WellFounded(g)
    BY DEF RegistryInv, RequestShape
<1>3. WellFounded(g)'
    BY <1>1, <1>2 DEF WellFounded
<1>4. allow' \subseteq Imeis /\ aborts' \in 0..MaxAborts
    BY DEF RegistryInv, TypeOK
<1> QED
    BY <1>1, <1>3, <1>4, StepKeeps DEF Advance

-----------------------------------------------------------------------------
\* A row that is filled in or changed does not become a second live row for an
\* IMEI as long as no other live row has it.
LEMMA RowWritten ==
    ASSUME RegistryInv, NEW r \in Rows, NEW new \in Device,
           table' = [table EXCEPT ![r] = new],
           \A s \in Rows \ {r} : new.live /\ LiveRow(s) => table[s].imei # new.imei
    PROVE  /\ table' \in [Rows -> Device \cup {None}]
           /\ \A s \in Rows : table[s] # None => table'[s] # None
           /\ LiveRowsDiffer'
<1>1. table'[r] = new /\ \A s \in Rows \ {r} : table'[s] = table[s]
    BY DEF RegistryInv, TypeOK
<1>2. new # None
    BY RegistryAssumption
<1>3. LiveRowsDiffer'
  <2> SUFFICES ASSUME NEW s \in Rows, NEW t \in Rows, LiveRow(s)', LiveRow(t)',
                      table'[s].imei = table'[t].imei, s # t
               PROVE  FALSE
    BY DEF LiveRowsDiffer
  <2>1. CASE s = r
    BY <1>1, <2>1 DEF LiveRow
  <2>2. CASE t = r
    BY <1>1, <2>2 DEF LiveRow
  <2>3. CASE s # r /\ t # r
    BY <1>1, <2>3 DEF LiveRow, RegistryInv, LiveRowsDiffer
  <2> QED
    BY <2>1, <2>2, <2>3
<1> QED
    BY <1>1, <1>2, <1>3 DEF RegistryInv, TypeOK

\* The table refuses a second live row for an IMEI.
LEMMA InsertKeeps ==
    ASSUME RegistryInv, NEW g \in Requests, Insert(g) PROVE RegistryInv'
<1> DEFINE i == req[g].imei
<1>1. i \in Imeis
    BY DEF RegistryInv, RequestShape, WellFounded, Insert
<1>2. CASE Taken(i)
  <2>1. End(g) /\ UNCHANGED <<table, allow>> /\ aborts' \in 0..MaxAborts
    BY <1>2 DEF Insert, RegistryInv, TypeOK
  <2> QED
    BY <2>1, EndKeeps
<1>3. CASE ~Taken(i)
  <2> DEFINE new == [imei |-> i, sends |-> TRUE, live |-> TRUE]
  <2>1. PICK r \in Rows : table' = [table EXCEPT ![r] = new] /\ Advance(g, "add")
    BY <1>3 DEF Insert
  <2>2. new \in Device /\ new.imei = i
    BY <1>1 DEF Device
  \* The index: no live row has the IMEI.
  <2>3. \A s \in Rows : LiveRow(s) => table[s].imei # i
    BY <1>3 DEF Taken, Live
  <2>4. "add" \in Step /\ UNCHANGED <<allow, aborts>>
    BY DEF Step, Insert
  <2>5. /\ table' \in [Rows -> Device \cup {None}] /\ LiveRowsDiffer'
        /\ \A s \in Rows : table[s] # None => table'[s] # None
    <3>1. \A s \in Rows \ {r} : new.live /\ LiveRow(s) => table[s].imei # new.imei
      BY <2>2, <2>3
    <3> HIDE DEF new
    <3> QED
      BY ZenonT(60), <1>1, <2>1, <2>2, <3>1, RowWritten
  <2> QED
    BY <1>1, <2>1, <2>4, <2>5, AdvanceKeeps
<1> QED
    BY <1>2, <1>3

\* An update changes a live row in place.
LEMMA UpdateKeeps ==
    ASSUME RegistryInv, NEW g \in Requests, Update(g) PROVE RegistryInv'
<1> DEFINE r == req[g].row
           new == [table[r] EXCEPT !.sends = req[g].sends]
<1>1. /\ r \in Rows /\ table[r] \in Device
      /\ req[g].sends \in BOOLEAN /\ req[g].imei \in Imeis
    BY DEF RegistryInv, RequestShape, WellFounded, Update, TypeOK, Request
<1>2. CASE ~LiveRow(r)
  <2>1. End(g) /\ UNCHANGED <<table, allow>> /\ aborts' \in 0..MaxAborts
    BY <1>2 DEF Update, RegistryInv, TypeOK
  <2> QED
    BY <2>1, EndKeeps
<1>3. CASE LiveRow(r)
  <2>1. /\ table' = [table EXCEPT ![r] = new]
        /\ Advance(g, Publication(req[g].sends))
    BY <1>3 DEF Update
  <2>2. new \in Device /\ new.imei = table[r].imei
    BY <1>1 DEF Device
  <2>3. \A s \in Rows \ {r} : LiveRow(s) => table[s].imei # table[r].imei
    BY <1>1, <1>3 DEF RegistryInv, LiveRowsDiffer
  <2>4. /\ Publication(req[g].sends) \in {"add", "remove"}
        /\ Publication(req[g].sends) \in Step /\ UNCHANGED <<allow, aborts>>
    BY DEF Publication, Step, Update
  <2>5. /\ table' \in [Rows -> Device \cup {None}] /\ LiveRowsDiffer'
        /\ \A s \in Rows : table[s] # None => table'[s] # None
    <3>1. \A s \in Rows \ {r} : new.live /\ LiveRow(s) => table[s].imei # new.imei
      BY <2>2, <2>3
    <3> HIDE DEF new
    <3> QED
      BY <1>1, <2>1, <2>2, <3>1, RowWritten
  <2> QED
    BY <1>1, <2>1, <2>4, <2>5, AdvanceKeeps
<1> QED
    BY <1>2, <1>3

\* A deleted row is live no more.
LEMMA DeleteKeeps ==
    ASSUME RegistryInv, NEW g \in Requests, Delete(g) PROVE RegistryInv'
<1> DEFINE r == req[g].row
           new == [table[r] EXCEPT !.live = FALSE]
<1>1. r \in Rows /\ table[r] \in Device /\ req[g].imei \in Imeis
    BY DEF RegistryInv, RequestShape, WellFounded, Delete, TypeOK
<1>2. table' = [table EXCEPT ![r] = new] /\ Advance(g, "remove")
    BY DEF Delete
<1>3. new \in Device /\ ~new.live
    BY <1>1 DEF Device
<1>4. "remove" \in Step /\ UNCHANGED <<allow, aborts>>
    BY DEF Step, Delete
<1>5. /\ table' \in [Rows -> Device \cup {None}] /\ LiveRowsDiffer'
      /\ \A s \in Rows : table[s] # None => table'[s] # None
  <2> HIDE DEF new
  <2> QED
    BY <1>1, <1>2, <1>3, RowWritten
<1> QED
    BY <1>1, <1>2, <1>4, <1>5, AdvanceKeeps

\* The table refuses to bring a row back beside a live one.
LEMMA UndeleteKeeps ==
    ASSUME RegistryInv, NEW g \in Requests, Undelete(g) PROVE RegistryInv'
<1> DEFINE r == req[g].row
           new == [table[r] EXCEPT !.live = TRUE]
<1>1. r \in Rows /\ table[r] \in Device /\ table[r] # None /\ req[g].imei \in Imeis
    BY DEF RegistryInv, RequestShape, WellFounded, Undelete, TypeOK
<1>2. CASE LiveRow(r) \/ Taken(table[r].imei)
  <2>1. End(g) /\ UNCHANGED <<table, allow>> /\ aborts' \in 0..MaxAborts
    BY <1>2 DEF Undelete, RegistryInv, TypeOK
  <2> QED
    BY <2>1, EndKeeps
<1>3. CASE ~(LiveRow(r) \/ Taken(table[r].imei))
  <2>1. table' = [table EXCEPT ![r] = new] /\ Advance(g, "reread")
    BY <1>3 DEF Undelete
  <2>2. new \in Device /\ new.imei = table[r].imei
    BY <1>1 DEF Device
  <2>3. \A s \in Rows : LiveRow(s) => table[s].imei # table[r].imei
    BY <1>3 DEF Taken, Live
  <2>4. "reread" \in Step /\ UNCHANGED <<allow, aborts>>
    BY DEF Step, Undelete
  <2>5. /\ table' \in [Rows -> Device \cup {None}] /\ LiveRowsDiffer'
        /\ \A s \in Rows : table[s] # None => table'[s] # None
    <3>1. \A s \in Rows \ {r} : new.live /\ LiveRow(s) => table[s].imei # new.imei
      BY <2>2, <2>3
    <3> HIDE DEF new
    <3> QED
      BY <1>1, <2>1, <2>2, <3>1, RowWritten
  <2> QED
    BY <1>1, <2>1, <2>4, <2>5, AdvanceKeeps
<1> QED
    BY <1>2, <1>3

-----------------------------------------------------------------------------
\* A request on a row that exists.
LEMMA BeginOnRow ==
    ASSUME RegistryInv, NEW g \in Requests, NEW op \in Op, NEW step \in Step,
           NEW r \in Rows, NEW sends \in BOOLEAN, table[r] # None,
           Begin(g, op, step, r, table[r].imei, sends, {})
    PROVE  RegistryInv'
<1>1. PICK i \in Imeis : i = table[r].imei
    BY DEF RegistryInv, TypeOK, Device
<1>2. Begin(g, op, step, r, i, sends, {})
    BY <1>1
<1>3. r \in Rows \cup {None} /\ i \in Imeis \cup {None} /\ {} \in SUBSET Imeis
    OBVIOUS
<1> QED
    BY <1>2, <1>3, BeginShape

\* The steps of a request that leave the table alone.
LEMMA RegistryBeginKeeps ==
    ASSUME RegistryInv, NEW g \in Requests,
           \/ \E i \in Imeis : Provision(g, i)
           \/ \E r \in Rows : \/ Remove(g, r) \/ Restore(g, r)
                              \/ \E s \in BOOLEAN : SetStatus(g, r, s)
           \/ Resync(g)
    PROVE  RegistryInv'
<1>1. ASSUME NEW i \in Imeis, Provision(g, i) PROVE RegistryInv'
  <2>1. Begin(g, "provision", "quota", None, i, TRUE, {})
    BY <1>1 DEF Provision
  <2>2. "provision" \in Op /\ "quota" \in Step
    BY DEF Op, Step
  <2>3. /\ None \in Rows \cup {None} /\ i \in Imeis \cup {None}
        /\ TRUE \in BOOLEAN /\ {} \in SUBSET Imeis
    OBVIOUS
  <2>4. ~("quota" = "quota" /\ "provision" # "provision")
    OBVIOUS
  <2>5. "quota" \notin {"update", "delete", "undelete", "reread"}
    OBVIOUS
  <2> QED
    BY <2>1, <2>2, <2>3, <2>4, <2>5, BeginShape
<1>2. ASSUME NEW r \in Rows, Remove(g, r) PROVE RegistryInv'
  <2>1. Begin(g, "remove", "delete", r, table[r].imei, FALSE, {})
    BY <1>2 DEF Remove
  <2>2. "remove" \in Op /\ "delete" \in Step
    BY DEF Op, Step
  <2>3. table[r] # None
    BY <1>2 DEF Remove, LiveRow
  <2> QED
    BY <2>1, <2>2, <2>3, BeginOnRow
<1>3. ASSUME NEW r \in Rows, Restore(g, r) PROVE RegistryInv'
  <2>1. Begin(g, "restore", "quota", r, table[r].imei, FALSE, {})
    BY <1>3 DEF Restore
  <2>2. "restore" \in Op /\ "quota" \in Step
    BY DEF Op, Step
  <2>3. table[r] # None
    BY <1>3 DEF Restore
  <2> QED
    BY <2>1, <2>2, <2>3, BeginOnRow
<1>4. ASSUME NEW r \in Rows, NEW s \in BOOLEAN, SetStatus(g, r, s) PROVE RegistryInv'
  <2>1. Begin(g, "status", "update", r, table[r].imei, s, {})
    BY <1>4 DEF SetStatus
  <2>2. "status" \in Op /\ "update" \in Step
    BY DEF Op, Step
  <2>3. table[r] # None
    BY <1>4 DEF SetStatus, LiveRow
  <2> QED
    BY <2>1, <2>2, <2>3, BeginOnRow
<1>5. CASE Resync(g)
  <2>1. Begin(g, "resync", "replace", None, None, FALSE, activeImeis)
    BY <1>5 DEF Resync
  <2>2. "resync" \in Op /\ "replace" \in Step /\ activeImeis \in SUBSET Imeis
    BY DEF Op, Step, activeImeis
  <2> QED
    BY <2>1, <2>2, BeginShape
<1> QED
    BY <1>1, <1>2, <1>3, <1>4, <1>5

\* The quota check ends a request or lets it go on.
LEMMA CheckQuotaKeeps ==
    ASSUME RegistryInv, NEW g \in Requests, CheckQuota(g) PROVE RegistryInv'
<1>1. UNCHANGED <<table, allow, aborts>> /\ aborts' \in 0..MaxAborts
    BY DEF CheckQuota, RegistryInv, TypeOK
<1>2. CASE OverQuota
    BY <1>1, <1>2, EndKeeps DEF CheckQuota
<1>3. CASE ~OverQuota
  <2>1. /\ table' \in [Rows -> Device \cup {None}]
        /\ LiveRowsDiffer'
    BY <1>1 DEF RegistryInv, TypeOK, LiveRowsDiffer, LiveRow
  <2>2. WellFounded(g) /\ req[g].step = "quota"
    BY DEF CheckQuota, RegistryInv, RequestShape
  <2>3. CASE req[g].op = "provision"
    <3>1. Advance(g, "insert") /\ "insert" \in Step
      BY <1>3, <2>3 DEF CheckQuota, Step
    <3> QED
      BY <1>1, <2>1, <2>2, <3>1, AdvanceKeeps DEF WellFounded
  <2>4. CASE req[g].op # "provision"
    <3>1. Advance(g, "undelete") /\ "undelete" \in Step
      BY <1>3, <2>4 DEF CheckQuota, Step
    <3> QED
      BY <1>1, <2>1, <2>2, <2>4, <3>1, AdvanceKeeps DEF WellFounded
  <2> QED
    BY <2>3, <2>4
<1> QED
    BY <1>2, <1>3

\* Reading the row again after a restore.
LEMMA RereadKeeps ==
    ASSUME RegistryInv, NEW g \in Requests, Reread(g) PROVE RegistryInv'
<1> DEFINE r == req[g].row
<1>1. UNCHANGED <<table, allow, aborts>> /\ aborts' \in 0..MaxAborts /\ allow' \subseteq Imeis
    BY DEF Reread, RegistryInv, TypeOK
<1>2. CASE ~LiveRow(r)
    BY <1>1, <1>2, EndKeeps DEF Reread
<1>3. CASE LiveRow(r) /\ ~table[r].sends
    BY <1>1, <1>3, SucceedKeeps DEF Reread
<1>4. CASE LiveRow(r) /\ table[r].sends
  <2>1. Advance(g, "add") /\ "add" \in Step
    BY <1>4 DEF Reread, Step
  <2>2. /\ table' \in [Rows -> Device \cup {None}]
        /\ LiveRowsDiffer'
    BY <1>1 DEF RegistryInv, TypeOK, LiveRowsDiffer, LiveRow
  <2>3. WellFounded(g) /\ req[g].step = "reread"
    BY DEF Reread, RegistryInv, RequestShape
  <2> QED
    BY <1>1, <2>1, <2>2, <2>3, AdvanceKeeps DEF WellFounded
<1> QED
    BY <1>2, <1>3, <1>4

\* Writes to the allow-list.
LEMMA PublishKeeps ==
    ASSUME RegistryInv, NEW g \in Requests, Publish(g) \/ Replace(g)
    PROVE  RegistryInv'
<1>1. Succeed(g) /\ UNCHANGED <<table, aborts>>
    BY DEF Publish, Replace
<1>2. WellFounded(g) /\ req[g] \in Request /\ allow \subseteq Imeis
    BY DEF RegistryInv, RequestShape, TypeOK
<1>3. allow' \subseteq Imeis
    BY <1>2 DEF Publish, Replace, WellFounded, Request
<1> QED
    BY <1>1, <1>3, SucceedKeeps

-----------------------------------------------------------------------------
\* An empty table, nobody at work.
LEMMA InitInv == Init => RegistryInv
<1> SUFFICES ASSUME Init PROVE RegistryInv
    OBVIOUS
<1>1. Idle \in Request
    BY DEF Idle, Request, Op, Step
<1>2. TypeOK
    BY <1>1, RegistryAssumption DEF Init, TypeOK
<1> QED
    BY <1>2 DEF Init, RegistryInv, RequestShape, WellFounded, Idle, LiveRowsDiffer, LiveRow

\* Every step of every request keeps the invariant.
LEMMA StepInv == RegistryInv /\ [Next]_vars => RegistryInv'
<1> SUFFICES ASSUME RegistryInv, [Next]_vars PROVE RegistryInv'
    OBVIOUS
<1>1. ASSUME NEW g \in Requests, Abort(g) PROVE RegistryInv'
  <2>1. End(g) /\ UNCHANGED <<table, allow>> /\ aborts' \in 0..MaxAborts
    BY <1>1, RegistryAssumption DEF Abort, RegistryInv, TypeOK
  <2> QED
    BY <2>1, EndKeeps
<1>2. CASE UNCHANGED vars
    BY <1>2 DEF vars, RegistryInv, TypeOK, RequestShape, WellFounded, LiveRowsDiffer, LiveRow
<1> QED
    BY <1>1, <1>2, RegistryBeginKeeps, CheckQuotaKeeps, InsertKeeps, UpdateKeeps, DeleteKeeps,
       UndeleteKeeps, RereadKeeps, PublishKeeps DEF Next

\* The inductive invariant of the registry.
LEMMA RegistryInvariant == Spec => []RegistryInv
    BY InitInv, StepInv, PTL DEF Spec

\* Every state of the registry is well typed.
THEOREM TypeCorrect == Spec => []TypeOK
<1>1. RegistryInv => TypeOK
    BY DEF RegistryInv
<1> QED
    BY <1>1, RegistryInvariant, PTL

\* However provisioning, restoring and deleting race, in however many replicas,
\* an IMEI never has two live rows.
THEOREM NoTwoLiveRows == Spec => []OneLiveRowPerImei
<1>1. RegistryInv => OneLiveRowPerImei
  <2> SUFFICES ASSUME RegistryInv, NEW i \in Imeis PROVE Cardinality(Live(i)) <= 1
    BY DEF OneLiveRowPerImei
  <2>1. CASE Live(i) = {}
    BY <2>1, FS_EmptySet
  <2>2. CASE Live(i) # {}
    <3>1. PICK r \in Live(i) : TRUE
      BY <2>2
    <3>2. Live(i) = {r}
      BY <3>1 DEF Live, RegistryInv, LiveRowsDiffer
    <3>3. Cardinality({r}) = 1
      BY FS_Singleton
    <3> QED
      BY <3>2, <3>3
  <2> QED
    BY <2>1, <2>2
<1> QED
    BY <1>1, RegistryInvariant, PTL

-----------------------------------------------------------------------------
(***************************************************************************)
(* The allow-list after a lone operation.                                  *)
(***************************************************************************)

\* Which operation a step belongs to, and whose row it names.
Notes(g) ==
    LET q == req[g] IN
    /\ q.step = "quota" => q.op \in {"provision", "restore"}
    /\ q.step \in {"undelete", "reread"} => q.op = "restore"
    /\ q.step \in {"insert", "update", "delete", "add", "remove"} => q.op # "resync"
    /\ q.step = "replace" => q.imei = None
    /\ \/ q.step \in {"update", "delete", "undelete", "reread"}
       \/ q.step = "quota" /\ q.op # "provision"
       => table[q.row].imei = q.imei

\* Two requests that touch are neither of them alone.
LoneDiffer ==
    \A g, h \in Requests :
        g # h /\ Busy(g) /\ Touches(h, req[g].imei) => ~req[g].alone

\* What a lone request is about to publish is the truth: nobody else writes the
\* rows of its IMEI.
LoneIsRight(g) ==
    LET q == req[g] IN
    q.alone =>
        /\ q.step = "add" => q.imei \in activeImeis
        /\ q.step = "remove" => q.imei \notin activeImeis
        /\ q.step = "delete" => LiveRow(q.row)
        /\ q.step = "replace" => q.found = activeImeis

LoneInv == LoneDiffer /\ \A g \in Requests : Notes(g) /\ LoneIsRight(g)

\* A row with an IMEI of its own says nothing of the others'.
LEMMA OthersStand ==
    ASSUME RegistryInv, NEW r \in Rows, NEW new \in Device,
           table' = [table EXCEPT ![r] = new],
           table[r] = None \/ table[r].imei = new.imei,
           NEW i \in Imeis, i # new.imei
    PROVE  i \in activeImeis <=> (i \in activeImeis)'
<1>1. table'[r] = new /\ \A s \in Rows \ {r} : table'[s] = table[s]
    BY DEF RegistryInv, TypeOK
<1>2. \A s \in Rows : s \in Live(i) <=> (s \in Live(i))'
    BY <1>1 DEF Live, LiveRow
<1>3. \A s \in Live(i) : s # r /\ s \in Rows
    BY <1>1 DEF Live, LiveRow
<1>4. \A s \in Live(i)' : s \in Rows
    BY DEF Live
<1> QED
    BY <1>1, <1>2, <1>3, <1>4 DEF activeImeis

\* One step of a request under way: it ends, or keeps its IMEI, and writes no
\* row but of that IMEI.  The other requests' notes stay true.
LEMMA LoneStep ==
    ASSUME RegistryInv, LoneInv, NEW g \in Requests, Busy(g), NEW next \in Request,
           req' = [req EXCEPT ![g] = next],
           \/ next.step = "idle"
           \/ next.imei = req[g].imei /\ next.alone = req[g].alone,
           \/ UNCHANGED table
           \/ \E r \in Rows : \E new \in Device :
                 /\ table' = [table EXCEPT ![r] = new]
                 /\ new.imei = req[g].imei
                 /\ table[r] = None \/ table[r].imei = new.imei,
           Notes(g)', LoneIsRight(g)'
    PROVE  LoneInv'
<1>1. req'[g] = next /\ \A h \in Requests \ {g} : req'[h] = req[h]
    BY DEF RegistryInv, TypeOK
<1>2. LoneDiffer'
  <2> SUFFICES ASSUME NEW a \in Requests, NEW b \in Requests, a # b, Busy(a)',
                      Touches(b, req[a].imei)'
               PROVE  ~req'[a].alone
    BY DEF LoneDiffer
  <2>1. Busy(b)' /\ (req'[b].imei = req'[a].imei \/ req'[b].imei = None \/ req'[a].imei = None)
    BY DEF Touches
  <2>2. \A c \in {a, b} : /\ Busy(c) /\ req'[c].imei = req[c].imei
                          /\ req'[c].alone = req[c].alone
    BY <1>1, <2>1 DEF Busy
  <2> QED
    BY <2>1, <2>2 DEF LoneInv, LoneDiffer, Touches
<1>3. ASSUME NEW h \in Requests, h # g PROVE Notes(h)' /\ LoneIsRight(h)'
  <2> PICK q \in Request : q = req[h]
    BY DEF RegistryInv, TypeOK
  <2>1. q = req[h] /\ req'[h] = q /\ WellFounded(h) /\ Notes(h) /\ LoneIsRight(h)
    BY <1>1, <1>3 DEF RegistryInv, TypeOK, RequestShape, LoneInv
  <2>2. CASE UNCHANGED table
    <3>1. activeImeis' = activeImeis /\ \A r : LiveRow(r)' <=> LiveRow(r)
      BY <2>2 DEF activeImeis, Live, LiveRow
    <3>2. Notes(h)'
      BY <2>1, <2>2 DEF Notes
    <3>3. LoneIsRight(h)'
      BY <2>1, <3>1 DEF LoneIsRight
    <3> QED
      BY <3>2, <3>3
  <2>3. ASSUME NEW r \in Rows, NEW new \in Device,
               table' = [table EXCEPT ![r] = new], new.imei = req[g].imei,
               table[r] = None \/ table[r].imei = new.imei
        PROVE  Notes(h)' /\ LoneIsRight(h)'
    <3>1. table'[r] = new /\ \A s \in Rows \ {r} : table'[s] = table[s]
      BY <2>3 DEF RegistryInv, TypeOK
    <3>2. Notes(h)'
      BY <2>1, <2>3, <3>1 DEF Notes, WellFounded
    <3>3. LoneIsRight(h)'
      <4>1. SUFFICES ASSUME q.alone, Busy(h) PROVE LoneIsRight(h)'
        BY <2>1 DEF LoneIsRight, Busy
      <4>2. q.imei # None /\ req[g].imei # None /\ q.imei # req[g].imei
        BY <1>3, <4>1 DEF LoneInv, LoneDiffer, Touches
      <4>3. q.step # "replace" /\ q.imei \in Imeis
        BY <2>1, <4>2 DEF Notes, Request
      <4>4. q.imei \in activeImeis <=> (q.imei \in activeImeis)'
        BY <2>3, <4>2, <4>3, OthersStand
      <4>5. q.step = "delete" => q.row # r /\ q.row \in Rows
        BY <2>1, <2>3, <4>2 DEF Notes, WellFounded
      <4>6. q.step = "delete" => (LiveRow(q.row) <=> LiveRow(q.row)')
        BY <3>1, <4>5 DEF LiveRow
      <4> QED
        BY <2>1, <4>1, <4>3, <4>4, <4>6 DEF LoneIsRight
    <3> QED
      BY <3>2, <3>3
  <2> QED
    BY <2>2, <2>3
<1> QED
    BY <1>2, <1>3 DEF LoneInv

\* A request begins, and those it touches are no longer alone.
LEMMA LoneBegin ==
    ASSUME RegistryInv, LoneInv,
           NEW g \in Requests, NEW op \in Op, NEW step \in Step \ {"idle"},
           NEW r \in Rows \cup {None}, NEW i \in Imeis \cup {None},
           NEW sends \in BOOLEAN, NEW found \in SUBSET Imeis,
           Begin(g, op, step, r, i, sends, found),
           step \in {"quota", "update", "delete", "replace"},
           step = "quota" => op \in {"provision", "restore"},
           step \in {"update", "delete"} => op # "resync",
           step = "replace" => i = None /\ found = activeImeis,
           step \in {"update", "delete"} \/ (step = "quota" /\ op # "provision") =>
               r \in Rows /\ table[r] # None /\ table[r].imei = i,
           step = "delete" => LiveRow(r)
    PROVE  LoneInv' /\ done' = None
<1> DEFINE others == {h \in Requests : Touches(h, i)}
           new == [op |-> op, step |-> step, row |-> r, imei |-> i,
                   sends |-> sends, found |-> found, alone |-> others = {}]
<1>1. /\ req' = [h \in Requests |->
                    IF h = g THEN new
                    ELSE IF h \in others THEN [req[h] EXCEPT !.alone = FALSE]
                    ELSE req[h]]
      /\ ~Busy(g) /\ UNCHANGED table /\ done' = None
    BY DEF Begin
<1>2. \A h \in Requests : req[h] \in Request
    BY DEF RegistryInv, TypeOK
<1>3. \A h \in Requests \ {g} :
          /\ req'[h].op = req[h].op /\ req'[h].step = req[h].step
          /\ req'[h].row = req[h].row /\ req'[h].imei = req[h].imei
          /\ req'[h].found = req[h].found
          /\ req'[h].alone => req[h].alone /\ h \notin others
  <2> HIDE DEF new, others
  <2> QED
    BY <1>1, <1>2 DEF Request
<1>4. /\ req'[g].op = op /\ req'[g].step = step /\ req'[g].row = r
      /\ req'[g].imei = i /\ req'[g].found = found
      /\ req'[g].alone <=> others = {}
    BY <1>1
<1>5. activeImeis' = activeImeis /\ \A s : LiveRow(s)' <=> LiveRow(s)
    BY <1>1 DEF activeImeis, Live, LiveRow
<1> HIDE DEF new
<1>6. LoneDiffer'
  <2> SUFFICES ASSUME NEW a \in Requests, NEW b \in Requests, a # b, Busy(a)',
                      Touches(b, req[a].imei)'
               PROVE  ~req'[a].alone
    BY DEF LoneDiffer
  <2>1. Busy(b)' /\ (req'[b].imei = req'[a].imei \/ req'[b].imei = None \/ req'[a].imei = None)
    BY DEF Touches
  <2>2. CASE a = g
    <3>1. b \in others
      BY <1>3, <1>4, <2>1, <2>2 DEF Touches, Busy
    <3> QED
      BY <1>4, <2>2, <3>1
  <2>3. CASE b = g
    <3>1. a \in others
      BY <1>3, <1>4, <2>1, <2>3 DEF Touches, Busy
    <3> QED
      BY <1>3, <2>3, <3>1
  <2>4. CASE a # g /\ b # g
    BY <1>3, <2>1, <2>4 DEF LoneInv, LoneDiffer, Touches, Busy
  <2> QED
    BY <2>2, <2>3, <2>4
<1>7. ASSUME NEW h \in Requests PROVE Notes(h)' /\ LoneIsRight(h)'
  <2>1. CASE h = g
    <3>1. Notes(h)'
      BY <1>1, <1>4, <2>1 DEF Notes
    <3>2. LoneIsRight(h)'
      BY <1>4, <1>5, <2>1 DEF LoneIsRight
    <3> QED
      BY <3>1, <3>2
  <2>2. CASE h # g
    <3>1. Notes(h)'
      BY <1>1, <1>3, <2>2 DEF LoneInv, Notes
    <3>2. LoneIsRight(h)'
      BY <1>3, <1>5, <2>2 DEF LoneInv, LoneIsRight
    <3> QED
      BY <3>1, <3>2
  <2> QED
    BY <2>1, <2>2
<1> QED
    BY <1>1, <1>6, <1>7 DEF LoneInv

\* The first step of each operation.
LEMMA LoneBegins ==
    ASSUME RegistryInv, LoneInv, NEW g \in Requests,
           \/ \E i \in Imeis : Provision(g, i)
           \/ \E r \in Rows : \/ Remove(g, r) \/ Restore(g, r)
                              \/ \E s \in BOOLEAN : SetStatus(g, r, s)
           \/ Resync(g)
    PROVE  LoneInv' /\ done' = None
<1>1. /\ \A op \in {"provision", "status", "remove", "restore", "resync"} : op \in Op
      /\ \A step \in {"quota", "delete", "update", "replace"} : step \in Step \ {"idle"}
      /\ {} \in SUBSET Imeis /\ activeImeis \in SUBSET Imeis
      /\ None \in Rows \cup {None} /\ None \in Imeis \cup {None}
    BY DEF Op, Step, activeImeis
<1>2. \A r \in Rows : table[r] # None => table[r].imei \in Imeis
    BY DEF RegistryInv, TypeOK, Device
<1>3. ASSUME NEW i \in Imeis, Provision(g, i) PROVE LoneInv' /\ done' = None
  <2>1. Begin(g, "provision", "quota", None, i, TRUE, {})
    BY <1>3 DEF Provision
  <2> QED
    BY <1>1, <2>1, LoneBegin
<1>4. ASSUME NEW r \in Rows, Remove(g, r) PROVE LoneInv' /\ done' = None
  <2>1. PICK i \in Imeis : i = table[r].imei
    BY <1>2, <1>4 DEF Remove, LiveRow
  <2>2. Begin(g, "remove", "delete", r, i, FALSE, {}) /\ LiveRow(r) /\ table[r] # None
    BY <1>4, <2>1 DEF Remove, LiveRow
  <2> QED
    BY <1>1, <2>1, <2>2, LoneBegin
<1>5. ASSUME NEW r \in Rows, Restore(g, r) PROVE LoneInv' /\ done' = None
  <2>1. PICK i \in Imeis : i = table[r].imei
    BY <1>2, <1>5 DEF Restore
  <2>2. Begin(g, "restore", "quota", r, i, FALSE, {}) /\ table[r] # None
    BY <1>5, <2>1 DEF Restore
  <2> QED
    BY <1>1, <2>1, <2>2, LoneBegin
<1>6. ASSUME NEW r \in Rows, NEW s \in BOOLEAN, SetStatus(g, r, s)
      PROVE  LoneInv' /\ done' = None
  <2>1. PICK i \in Imeis : i = table[r].imei
    BY <1>2, <1>6 DEF SetStatus, LiveRow
  <2>2. Begin(g, "status", "update", r, i, s, {}) /\ table[r] # None
    BY <1>6, <2>1 DEF SetStatus, LiveRow
  <2> QED
    BY <1>1, <2>1, <2>2, LoneBegin
<1>7. CASE Resync(g)
  <2>1. Begin(g, "resync", "replace", None, None, FALSE, activeImeis)
    BY <1>7 DEF Resync
  <2> QED
    BY <1>1, <2>1, LoneBegin
<1> QED
    BY <1>3, <1>4, <1>5, <1>6, <1>7

\* A request that ends, the table being left alone.
LEMMA LoneRests ==
    ASSUME RegistryInv, LoneInv, NEW g \in Requests, Busy(g),
           req' = [req EXCEPT ![g] = Idle], UNCHANGED table
    PROVE  LoneInv'
<1>1. Idle \in Request /\ Idle.step = "idle"
    BY DEF Idle, Request, Op, Step
<1>2. (req[g] = Idle)'
    BY DEF RegistryInv, TypeOK, Idle
<1>3. Notes(g)' /\ LoneIsRight(g)'
    BY <1>2 DEF Notes, LoneIsRight, Idle
<1> QED
    BY <1>1, <1>3, LoneStep

\* A request moves on: to another step on its row, or to what it publishes.
LEMMA LoneGoesOn ==
    ASSUME RegistryInv, LoneInv, NEW g \in Requests, Busy(g),
           NEW step \in {"insert", "undelete", "reread", "add", "remove"},
           Advance(g, step),
           \/ UNCHANGED table
           \/ \E r \in Rows : \E new \in Device :
                 /\ table' = [table EXCEPT ![r] = new]
                 /\ new.imei = req[g].imei
                 /\ table[r] = None \/ table[r].imei = new.imei,
           req[g].op # "resync",
           step \in {"undelete", "reread"} =>
               req[g].op = "restore" /\ table'[req[g].row].imei = req[g].imei,
           req[g].alone =>
               /\ step = "add" => req[g].imei \in activeImeis'
               /\ step = "remove" => req[g].imei \notin activeImeis'
    PROVE  LoneInv'
<1>1. step \in Step
    BY DEF Step
<1>2. PICK next \in Request :
          /\ req' = [req EXCEPT ![g] = next]
          /\ req'[g] = next
          /\ next.step = step /\ next.op = req[g].op
          /\ next.row = req[g].row /\ next.imei = req[g].imei
          /\ next.alone = req[g].alone
    BY <1>1, MovedOn DEF Advance
<1>3. Notes(g)'
    BY <1>2 DEF Notes
<1>4. LoneIsRight(g)'
    BY <1>2 DEF LoneIsRight
<1> QED
    BY <1>2, <1>3, <1>4, LoneStep

\* The quota check changes nothing but the request.
LEMMA LoneCheckQuota ==
    ASSUME RegistryInv, LoneInv, NEW g \in Requests, CheckQuota(g)
    PROVE  LoneInv' /\ done' = None
<1>1. UNCHANGED table /\ Busy(g) /\ req[g].step = "quota" /\ Notes(g)
    BY DEF CheckQuota, Busy, LoneInv
<1>2. CASE OverQuota
    BY <1>1, <1>2, LoneRests DEF CheckQuota, End
<1>3. CASE ~OverQuota /\ req[g].op = "provision"
  <2>1. Advance(g, "insert")
    BY <1>3 DEF CheckQuota
  <2> QED
    BY <1>1, <1>3, <2>1, LoneGoesOn DEF Advance
<1>4. CASE ~OverQuota /\ req[g].op # "provision"
  <2>1. Advance(g, "undelete")
    BY <1>4 DEF CheckQuota
  <2>2. req[g].op = "restore" /\ table'[req[g].row].imei = req[g].imei
    BY <1>1, <1>4 DEF Notes
  <2> QED
    BY <1>1, <2>1, <2>2, LoneGoesOn DEF Advance
<1> QED
    BY <1>2, <1>3, <1>4

\* A row that is written decides, as the only live one of its IMEI, whether the
\* IMEI may send.
LEMMA WrittenDecides ==
    ASSUME RegistryInv, RegistryInv', NEW r \in Rows, NEW new \in Device,
           table' = [table EXCEPT ![r] = new],
           new.live \/ (LiveRow(r) /\ table[r].imei = new.imei)
    PROVE  new.imei \in activeImeis' <=> new.live /\ new.sends
<1>1. table'[r] = new /\ new # None /\ \A s \in Rows \ {r} : table'[s] = table[s]
    BY RegistryAssumption DEF RegistryInv, TypeOK
<1>2. LiveRow(r)' <=> new.live
    BY <1>1 DEF LiveRow
<1>3. \A s \in Rows \ {r} : ~(LiveRow(s)' /\ table'[s].imei = new.imei)
  <2> SUFFICES ASSUME NEW s \in Rows \ {r}, LiveRow(s)', table'[s].imei = new.imei
               PROVE  FALSE
    OBVIOUS
  <2>1. LiveRow(s) /\ table[s].imei = new.imei
    BY <1>1 DEF LiveRow
  <2> QED
    BY <1>1, <1>2, <2>1 DEF RegistryInv, LiveRowsDiffer
<1>4. new.imei \in Imeis
    BY DEF Device
<1> QED
    BY <1>1, <1>2, <1>3, <1>4 DEF activeImeis, Live

\* The row of a new device: it may send, and its IMEI will be added.
LEMMA LoneInsert ==
    ASSUME RegistryInv, RegistryInv', LoneInv, NEW g \in Requests, Insert(g)
    PROVE  LoneInv' /\ done' = None
<1> PICK i \in Imeis : i = req[g].imei
    BY DEF RegistryInv, RequestShape, WellFounded, Insert
<1>1. Busy(g) /\ req[g].step = "insert" /\ Notes(g)
    BY DEF Insert, Busy, LoneInv
<1>2. CASE Taken(i)
  <2>1. End(g) /\ UNCHANGED table
    BY <1>2 DEF Insert
  <2> QED
    BY <1>1, <2>1, LoneRests DEF End
<1>3. CASE ~Taken(i)
  <2>1. PICK r \in Rows :
            /\ table[r] = None
            /\ table' = [table EXCEPT ![r] =
                            [imei |-> i, sends |-> TRUE, live |-> TRUE]]
            /\ Advance(g, "add")
    BY <1>3 DEF Insert
  <2>2. PICK new \in Device : /\ new = [imei |-> i, sends |-> TRUE, live |-> TRUE]
                              /\ new.imei = i /\ new.sends /\ new.live
    <3> DEFINE n == [imei |-> i, sends |-> TRUE, live |-> TRUE]
    <3>1. n \in Device /\ n.imei = i /\ n.sends /\ n.live
      BY DEF Device
    <3> QED
      BY <3>1, Zenon
  <2>3. table' = [table EXCEPT ![r] = new]
    BY <2>1, <2>2
  <2>4. i \in activeImeis'
    BY <2>2, <2>3, WrittenDecides
  <2> QED
    BY <1>1, <2>1, <2>2, <2>3, <2>4, LoneGoesOn DEF Notes, Advance
<1> QED
    BY <1>2, <1>3

\* A status that is written decides what is published.
LEMMA LoneUpdate ==
    ASSUME RegistryInv, RegistryInv', LoneInv, NEW g \in Requests, Update(g)
    PROVE  LoneInv' /\ done' = None
<1> PICK r \in Rows : r = req[g].row
    BY DEF RegistryInv, RequestShape, WellFounded, Update
<1>1. /\ Busy(g) /\ req[g].step = "update" /\ Notes(g) /\ table[r] \in Device
      /\ req[g].sends \in BOOLEAN
    BY DEF Update, Busy, LoneInv, RegistryInv, RequestShape, WellFounded, TypeOK, Request
<1>2. CASE ~LiveRow(r)
  <2>1. End(g) /\ UNCHANGED table
    BY <1>2 DEF Update
  <2> QED
    BY <1>1, <2>1, LoneRests DEF End
<1>3. CASE LiveRow(r)
  <2>1. /\ table' = [table EXCEPT ![r].sends = req[g].sends]
        /\ Advance(g, Publication(req[g].sends))
    BY <1>3 DEF Update
  <2>2. PICK new \in Device :
            /\ table' = [table EXCEPT ![r] = new]
            /\ new.imei = table[r].imei /\ new.live = table[r].live
            /\ new.sends = req[g].sends
    <3> DEFINE n == [table[r] EXCEPT !.sends = req[g].sends]
    <3>1. n \in Device /\ table' = [table EXCEPT ![r] = n]
      BY <1>1, <2>1 DEF Device
    <3>2. n.imei = table[r].imei /\ n.live = table[r].live /\ n.sends = req[g].sends
      BY <1>1 DEF Device
    <3> HIDE DEF n
    <3> QED
      BY <3>1, <3>2
  <2>3. new.imei = req[g].imei
    BY <1>1, <2>2 DEF Notes
  <2>4. req[g].imei \in activeImeis' <=> req[g].sends
    BY <1>3, <2>2, <2>3, WrittenDecides DEF LiveRow
  <2>5. PICK step \in {"add", "remove"} :
            /\ step = Publication(req[g].sends)
            /\ step = "add" <=> req[g].sends
    BY DEF Publication
  <2> QED
    BY ZenonT(60), <1>1, <2>1, <2>2, <2>3, <2>4, <2>5, LoneGoesOn DEF Notes, Advance
<1> QED
    BY <1>2, <1>3

\* A lone deletion deletes the live row of its IMEI.
LEMMA LoneDelete ==
    ASSUME RegistryInv, RegistryInv', LoneInv, NEW g \in Requests, Delete(g)
    PROVE  LoneInv' /\ done' = None
<1> PICK r \in Rows : r = req[g].row
    BY DEF RegistryInv, RequestShape, WellFounded, Delete
<1>1. /\ Busy(g) /\ req[g].step = "delete" /\ Notes(g) /\ LoneIsRight(g)
      /\ table[r] \in Device
    BY DEF Delete, Busy, LoneInv, RegistryInv, RequestShape, WellFounded, TypeOK
<1>2. table' = [table EXCEPT ![r].live = FALSE] /\ Advance(g, "remove")
    BY DEF Delete
<1>3. PICK new \in Device :
          /\ table' = [table EXCEPT ![r] = new]
          /\ new.imei = table[r].imei /\ ~new.live
  <2> DEFINE n == [table[r] EXCEPT !.live = FALSE]
  <2>1. n \in Device /\ table' = [table EXCEPT ![r] = n]
    BY <1>1, <1>2 DEF Device
  <2>2. n.imei = table[r].imei /\ ~n.live
    BY <1>1 DEF Device
  <2> HIDE DEF n
  <2> QED
    BY <2>1, <2>2
<1>4. new.imei = req[g].imei
    BY <1>1, <1>3 DEF Notes
<1>5. req[g].alone => req[g].imei \notin activeImeis'
    BY <1>1, <1>3, <1>4, WrittenDecides DEF LoneIsRight
<1> QED
    BY <1>1, <1>2, <1>3, <1>4, <1>5, LoneGoesOn DEF Notes, Advance

\* A row that is brought back has its status read again.
LEMMA LoneUndelete ==
    ASSUME RegistryInv, LoneInv, NEW g \in Requests, Undelete(g)
    PROVE  LoneInv' /\ done' = None
<1> PICK r \in Rows : r = req[g].row
    BY DEF RegistryInv, RequestShape, WellFounded, Undelete
<1>1. /\ Busy(g) /\ req[g].step = "undelete" /\ Notes(g) /\ table[r] \in Device
    BY DEF Undelete, Busy, LoneInv, RegistryInv, RequestShape, WellFounded, TypeOK
<1>2. CASE LiveRow(r) \/ Taken(table[r].imei)
  <2>1. End(g) /\ UNCHANGED table
    BY <1>2 DEF Undelete
  <2> QED
    BY <1>1, <2>1, LoneRests DEF End
<1>3. CASE ~(LiveRow(r) \/ Taken(table[r].imei))
  <2>1. table' = [table EXCEPT ![r].live = TRUE] /\ Advance(g, "reread")
    BY <1>3 DEF Undelete
  <2>2. PICK new \in Device :
            table' = [table EXCEPT ![r] = new] /\ new.imei = table[r].imei
    <3> DEFINE n == [table[r] EXCEPT !.live = TRUE]
    <3>1. n \in Device /\ table' = [table EXCEPT ![r] = n]
      BY <1>1, <2>1 DEF Device
    <3>2. n.imei = table[r].imei
      BY <1>1 DEF Device
    <3> HIDE DEF n
    <3> QED
      BY <3>1, <3>2
  <2>3. table'[r] = new
    BY <2>2 DEF RegistryInv, TypeOK
  <2> QED
    <3>1. req[g].op = "restore" /\ table'[r].imei = req[g].imei
      BY <1>1, <2>2, <2>3 DEF Notes
    <3>2. new.imei = req[g].imei /\ table[r].imei = new.imei
      BY <2>2, <2>3, <3>1
    <3> QED
      BY <1>1, <2>1, <2>2, <3>1, <3>2, LoneGoesOn DEF Advance
<1> QED
    BY <1>2, <1>3

\* The row is read again after a restore: a device that may send is published.
LEMMA LoneReread ==
    ASSUME RegistryInv, LoneInv, NEW g \in Requests, Reread(g)
    PROVE  LoneInv' /\ LoneOperationHeals'
<1> PICK r \in Rows : r = req[g].row
    BY DEF RegistryInv, RequestShape, WellFounded, Reread
<1>1. /\ Busy(g) /\ req[g].step = "reread" /\ req[g].op = "restore"
      /\ req[g].imei \in Imeis /\ table[r].imei = req[g].imei
      /\ UNCHANGED <<table, allow>> /\ activeImeis' = activeImeis
    BY DEF Reread, Busy, LoneInv, Notes, RegistryInv, RequestShape, WellFounded,
           activeImeis, Live, LiveRow
<1>2. CASE ~LiveRow(r)
  <2>1. End(g)
    BY <1>2 DEF Reread
  <2> QED
    BY <1>1, <2>1, LoneRests DEF End, LoneOperationHeals
<1>3. CASE LiveRow(r) /\ table[r].sends
  <2>1. Advance(g, "add")
    BY <1>3 DEF Reread
  <2>2. req[g].imei \in activeImeis'
    BY <1>1, <1>3 DEF activeImeis, Live
  <2> QED
    BY <1>1, <2>1, <2>2, LoneGoesOn DEF Advance, LoneOperationHeals
<1>4. CASE LiveRow(r) /\ ~table[r].sends
  <2>1. Succeed(g)
    BY <1>4 DEF Reread
  <2>2. done'.imei = req[g].imei /\ done'.op = "restore"
    BY <1>1, <2>1 DEF Succeed
  <2>3. req[g].imei \notin activeImeis
    BY <1>1, <1>4 DEF activeImeis, Live, RegistryInv, LiveRowsDiffer
  <2>4. LoneOperationHeals'
    BY <1>1, <2>2, <2>3 DEF LoneOperationHeals
  <2> QED
    BY <1>1, <2>1, <2>4, LoneRests DEF Succeed
<1> QED
    BY <1>2, <1>3, <1>4

\* What a lone request publishes is the truth.
LEMMA LonePublish ==
    ASSUME RegistryInv, LoneInv, NEW g \in Requests, Publish(g) \/ Replace(g)
    PROVE  LoneInv' /\ LoneOperationHeals'
<1>1. /\ Busy(g) /\ Notes(g) /\ LoneIsRight(g) /\ Succeed(g)
      /\ UNCHANGED table /\ activeImeis' = activeImeis
    BY DEF Publish, Replace, Busy, LoneInv, activeImeis, Live, LiveRow
<1>2. LoneInv'
    BY <1>1, LoneRests DEF Succeed
<1>3. /\ done'.imei = req[g].imei /\ done'.op = req[g].op
      /\ done'.alone = req[g].alone
    BY <1>1 DEF Succeed
<1>4. CASE Publish(g)
  <2>1. req[g].op # "resync" /\ req[g].step \in {"add", "remove"}
    BY <1>1, <1>4 DEF Notes, Publish
  <2>2. req[g].alone => (req[g].imei \in allow' <=> req[g].imei \in activeImeis')
    BY <1>1, <1>4, <2>1 DEF LoneIsRight, Publish
  <2> QED
    BY <1>2, <1>3, <2>1, <2>2 DEF LoneOperationHeals, Agrees
<1>5. CASE Replace(g)
  <2>1. req[g].alone => allow' = activeImeis'
    BY <1>1, <1>5 DEF LoneIsRight, Replace
  <2> QED
    BY <1>2, <1>3, <2>1 DEF LoneOperationHeals, Agrees
<1> QED
    BY <1>4, <1>5

\* Every step of every request keeps lone requests right.
LEMMA LoneStepInv ==
    ASSUME RegistryInv, RegistryInv', LoneInv, LoneOperationHeals, [Next]_vars
    PROVE  LoneInv' /\ LoneOperationHeals'
<1>1. done' = None => LoneOperationHeals'
    BY DEF LoneOperationHeals
<1>2. ASSUME NEW g \in Requests, Abort(g) PROVE LoneInv' /\ done' = None
    BY <1>2, LoneRests DEF Abort, End
<1>3. CASE UNCHANGED vars
    BY <1>3 DEF vars, LoneInv, LoneDiffer, Notes, LoneIsRight, LoneOperationHeals,
                Busy, Touches, LiveRow, Live, activeImeis, Agrees
<1> QED
    BY <1>1, <1>2, <1>3, LoneBegins, LoneCheckQuota, LoneInsert, LoneUpdate, LoneDelete,
       LoneUndelete, LoneReread, LonePublish DEF Next

\* The invariant of lone requests.
LEMMA LoneInvariant == Spec => [](RegistryInv /\ LoneInv /\ LoneOperationHeals)
<1>1. Init => LoneInv /\ LoneOperationHeals
    BY DEF Init, Idle, LoneInv, LoneDiffer, Notes, LoneIsRight, Busy, LoneOperationHeals
<1>2. /\ RegistryInv /\ RegistryInv' /\ LoneInv /\ LoneOperationHeals /\ [Next]_vars
      => LoneInv' /\ LoneOperationHeals'
    BY LoneStepInv
<1> QED
    BY <1>1, <1>2, RegistryInvariant, PTL DEF Spec

-----------------------------------------------------------------------------
(***************************************************************************)
(* The quota.                                                              *)
(***************************************************************************)
LiveRows == {r \in Rows : LiveRow(r)}

\* Whoever has passed the quota check may still add a row.
Adding == {g \in Requests : req[g].step \in {"insert", "undelete"}}

\* Who may still add a row counts as if it had.
QuotaInv ==
    Cardinality(LiveRows) + Cardinality(Adding) < Quota + Cardinality(Requests)

\* The table and the requests of a moment are finite, and somebody asks.
FiniteRegistry == IsFiniteSet(Rows) /\ IsFiniteSet(Requests) /\ Requests # {}

\* The sums are of numbers.
LEMMA Countable ==
    ASSUME FiniteRegistry
    PROVE  /\ IsFiniteSet(LiveRows) /\ Cardinality(LiveRows) \in Nat
           /\ IsFiniteSet(Adding) /\ Cardinality(Adding) \in Nat
           /\ Cardinality(Adding) <= Cardinality(Requests)
           /\ Cardinality(Requests) \in Nat /\ Cardinality(Requests) > 0
           /\ Quota \in Nat
<1>1. LiveRows \subseteq Rows /\ Adding \subseteq Requests
    BY DEF LiveRows, Adding
<1>2. Cardinality(Requests) # 0
    BY FS_EmptySet DEF FiniteRegistry
<1> QED
    BY <1>1, <1>2, FS_Subset, FS_CardinalityType, RegistryAssumption DEF FiniteRegistry

\* No row comes to life, and nobody passes the check.
LEMMA QuotaKept ==
    ASSUME FiniteRegistry, QuotaInv,
           LiveRows' \subseteq LiveRows, Adding' \subseteq Adding
    PROVE  QuotaInv'
<1>1. /\ Cardinality(LiveRows') <= Cardinality(LiveRows)
      /\ Cardinality(Adding') <= Cardinality(Adding)
      /\ Cardinality(LiveRows') \in Nat /\ Cardinality(Adding') \in Nat
    BY Countable, FS_Subset, FS_CardinalityType
<1> QED
    BY <1>1, Countable DEF QuotaInv

\* A row comes to life, and whoever brought it has used its turn.
LEMMA QuotaSpent ==
    ASSUME FiniteRegistry, QuotaInv, NEW r, NEW g \in Adding,
           LiveRows' \subseteq LiveRows \cup {r}, Adding' \subseteq Adding \ {g}
    PROVE  QuotaInv'
<1>1. /\ IsFiniteSet(LiveRows \cup {r})
      /\ Cardinality(LiveRows \cup {r}) <= Cardinality(LiveRows) + 1
  <2>1. IsFiniteSet(LiveRows) /\ Cardinality(LiveRows) \in Nat
    BY Countable
  <2>2. IsFiniteSet(LiveRows \cup {r})
    BY <2>1, FS_AddElement
  <2>3. Cardinality(LiveRows \cup {r}) =
            IF r \in LiveRows THEN Cardinality(LiveRows) ELSE Cardinality(LiveRows) + 1
    BY <2>1, FS_AddElement
  <2> QED
    BY <2>1, <2>2, <2>3
<1>2. /\ IsFiniteSet(Adding \ {g})
      /\ Cardinality(Adding \ {g}) = Cardinality(Adding) - 1
    BY Countable, FS_RemoveElement
<1>3. /\ Cardinality(LiveRows') <= Cardinality(LiveRows \cup {r})
      /\ Cardinality(Adding') <= Cardinality(Adding \ {g})
      /\ Cardinality(LiveRows') \in Nat /\ Cardinality(Adding') \in Nat
      /\ Cardinality(LiveRows \cup {r}) \in Nat /\ Cardinality(Adding \ {g}) \in Nat
    BY <1>1, <1>2, FS_Subset, FS_CardinalityType
<1> QED
    BY <1>1, <1>2, <1>3, Countable DEF QuotaInv

\* What a step may do to a row, and to whoever is about to add one.
LEMMA QuotaSteps ==
    ASSUME RegistryInv, NEW g \in Requests, NEW next, req' = [req EXCEPT ![g] = next],
           next.step \notin {"insert", "undelete"}
    PROVE  Adding' \subseteq Adding \ {g}
    BY DEF Adding, RegistryInv, TypeOK

\* A request that begins is not about to add a row.
LEMMA QuotaBegin ==
    ASSUME RegistryInv, FiniteRegistry, QuotaInv, NEW g \in Requests,
           NEW op, NEW step \in {"quota", "update", "delete", "replace"}, NEW r, NEW i,
           NEW sends \in BOOLEAN, NEW found, Begin(g, op, step, r, i, sends, found)
    PROVE  QuotaInv'
<1>1. \A h \in Requests : req[h] \in Request
    BY DEF RegistryInv, TypeOK
<1>2. \A h \in Requests : req'[h].step = IF h = g THEN step ELSE req[h].step
    BY <1>1 DEF Begin, Request
<1>3. LiveRows' \subseteq LiveRows /\ Adding' \subseteq Adding
    BY <1>2 DEF Begin, Adding, LiveRows, LiveRow
<1> QED
    BY <1>3, QuotaKept

\* Each step of a request adds a row at most in the turn it has.
LEMMA QuotaStepInv ==
    ASSUME RegistryInv, FiniteRegistry, QuotaInv, [Next]_vars
    PROVE  QuotaInv'
<1>1. ASSUME NEW g \in Requests,
             \/ \E i \in Imeis : Provision(g, i)
             \/ \E r \in Rows : \/ Remove(g, r) \/ Restore(g, r)
                                \/ \E s \in BOOLEAN : SetStatus(g, r, s)
             \/ Resync(g)
      PROVE  QuotaInv'
  <2>1. ASSUME NEW i \in Imeis, Provision(g, i) PROVE QuotaInv'
    <3>1. Begin(g, "provision", "quota", None, i, TRUE, {})
      BY <2>1 DEF Provision
    <3> QED
      BY <3>1, QuotaBegin
  <2>2. ASSUME NEW r \in Rows, Remove(g, r) PROVE QuotaInv'
    <3>1. Begin(g, "remove", "delete", r, table[r].imei, FALSE, {})
      BY <2>2 DEF Remove
    <3> QED
      BY <3>1, QuotaBegin
  <2>3. ASSUME NEW r \in Rows, Restore(g, r) PROVE QuotaInv'
    <3>1. Begin(g, "restore", "quota", r, table[r].imei, FALSE, {})
      BY <2>3 DEF Restore
    <3> QED
      BY <3>1, QuotaBegin
  <2>4. ASSUME NEW r \in Rows, NEW s \in BOOLEAN, SetStatus(g, r, s) PROVE QuotaInv'
    <3>1. Begin(g, "status", "update", r, table[r].imei, s, {})
      BY <2>4 DEF SetStatus
    <3> QED
      BY <3>1, QuotaBegin
  <2>5. CASE Resync(g)
    <3>1. Begin(g, "resync", "replace", None, None, FALSE, activeImeis)
      BY <2>5 DEF Resync
    <3> QED
      BY <3>1, QuotaBegin
  <2> QED
    BY <1>1, <2>1, <2>2, <2>3, <2>4, <2>5
<1>2. ASSUME NEW g \in Requests, CheckQuota(g) PROVE QuotaInv'
  <2>1. LiveRows' = LiveRows
    BY <1>2 DEF CheckQuota, LiveRows, LiveRow
  <2>2. CASE OverQuota
    <3>1. Adding' \subseteq Adding
      BY <1>2, <2>2, QuotaSteps DEF CheckQuota, End, Idle
    <3> QED
      BY <2>1, <3>1, QuotaKept
  \* One row fewer than the quota, and nobody but the requests there are.
  <2>3. CASE ~OverQuota
    <3>1. Cardinality(LiveRows) < Quota
      BY <2>3, Countable DEF OverQuota, LiveRows
    <3>2. /\ Cardinality(Adding') \in Nat
          /\ Cardinality(Adding') <= Cardinality(Requests)
      <4>1. Adding' \subseteq Requests
        BY DEF Adding
      <4> QED
        BY <4>1, FS_Subset, FS_CardinalityType DEF FiniteRegistry
    <3> QED
      BY <2>1, <3>1, <3>2, Countable DEF QuotaInv
  <2> QED
    BY <2>2, <2>3
<1>3. ASSUME NEW g \in Requests, Insert(g) \/ Undelete(g) PROVE QuotaInv'
  <2>1. g \in Adding
    BY <1>3 DEF Insert, Undelete, Adding
  <2>2. Adding' \subseteq Adding \ {g}
    <3>1. CASE End(g)
      BY <3>1, QuotaSteps DEF End, Idle
    <3>2. ASSUME NEW step \in {"add", "reread"}, Advance(g, step)
          PROVE  Adding' \subseteq Adding \ {g}
      BY <3>2 DEF Advance, Adding, RegistryInv, TypeOK, Request
    <3> QED
      BY <1>3, <3>1, <3>2 DEF Insert, Undelete
  <2>3. PICK r \in Rows : LiveRows' \subseteq LiveRows \cup {r}
    <3>1. CASE UNCHANGED table
      <4>1. LiveRows' = LiveRows
        BY <3>1 DEF LiveRows, LiveRow
      <4>2. Rows # {}
        BY <1>3 DEF Insert, Undelete, RegistryInv, RequestShape, WellFounded, Live, Taken
      <4> QED
        BY <4>1, <4>2
    <3>2. ASSUME NEW r \in Rows, NEW new, table' = [table EXCEPT ![r] = new]
          PROVE  LiveRows' \subseteq LiveRows \cup {r}
      BY <3>2 DEF LiveRows, LiveRow, RegistryInv, TypeOK
    <3>3. Undelete(g) => req[g].row \in Rows
      BY DEF Undelete, RegistryInv, RequestShape, WellFounded
    <3> QED
      BY <1>3, <3>1, <3>2, <3>3 DEF Insert, Undelete
  <2> QED
    BY <2>1, <2>2, <2>3, QuotaSpent
<1>4. ASSUME NEW g \in Requests, Update(g) \/ Delete(g) PROVE QuotaInv'
  <2>1. /\ req[g].row \in Rows /\ table[req[g].row] \in Device
        /\ req[g].sends \in BOOLEAN
    BY <1>4 DEF Update, Delete, RegistryInv, RequestShape, WellFounded, TypeOK, Request
  <2>2. LiveRows' \subseteq LiveRows
    BY <1>4, <2>1 DEF Update, Delete, LiveRows, LiveRow, RegistryInv, TypeOK, Device
  <2>3. Adding' \subseteq Adding
    BY <1>4 DEF Update, Delete, Publication, End, Idle, Advance, Adding, RegistryInv,
                TypeOK, Request
  <2> QED
    BY <2>2, <2>3, QuotaKept
<1>5. ASSUME NEW g \in Requests, Reread(g) \/ Publish(g) \/ Replace(g) \/ Abort(g)
      PROVE  QuotaInv'
  <2>1. LiveRows' = LiveRows
    BY <1>5 DEF Reread, Publish, Replace, Abort, LiveRows, LiveRow
  <2>2. Adding' \subseteq Adding
    BY <1>5 DEF Reread, Publish, Replace, Abort, End, Succeed, Idle, Advance, Adding,
                RegistryInv, TypeOK, Request
  <2> QED
    BY <2>1, <2>2, QuotaKept
<1>6. CASE UNCHANGED vars
  <2>1. LiveRows' = LiveRows /\ Adding' = Adding
    BY <1>6 DEF vars, LiveRows, LiveRow, Adding
  <2> QED
    BY <2>1, QuotaKept
<1> QED
    BY <1>1, <1>2, <1>3, <1>4, <1>5, <1>6 DEF Next

\* Whatever requests overlap, and wherever they are cut short: the next operation
\* that nothing overlaps leaves the allow-list right for its IMEI, a lone resync
\* for every IMEI, and the plan's limit is exceeded by fewer than there are
\* requests.
THEOREM SurvivesRaces ==
    ASSUME FiniteRegistry PROVE Spec => []RegistrySurvivesRaces
<1>1. Init => QuotaInv
  <2> SUFFICES ASSUME Init PROVE QuotaInv
    OBVIOUS
  <2>1. LiveRows = {} /\ Adding = {}
    BY DEF Init, Idle, LiveRows, LiveRow, Adding
  <2> QED
    BY <2>1, Countable, FS_EmptySet DEF QuotaInv
<1>2. RegistryInv /\ QuotaInv /\ [Next]_vars => QuotaInv'
    BY QuotaStepInv
<1>3. QuotaInv => QuotaNearlyHolds
    BY Countable DEF QuotaInv, QuotaNearlyHolds, LiveRows
<1>4. LoneOperationHeals /\ QuotaNearlyHolds => RegistrySurvivesRaces
    BY DEF RegistrySurvivesRaces
<1> QED
    BY <1>1, <1>2, <1>3, <1>4, RegistryInvariant, LoneInvariant, PTL DEF Spec

(***************************************************************************)
(* The second factor.                                                      *)
(***************************************************************************)
Stepping(c, k, s) == factorCall[c].kind = k /\ factorCall[c].step = s

\* As long as the calls that change the factor come one after the other, an enable
\* that has seen a code is about to switch on the secret it has seen it of.
FactorInv ==
    /\ account \in [active : BOOLEAN, enabled : BOOLEAN, secret : Nat]
    /\ factorCall \in [Two -> [kind : Factor!Kinds, step : {"idle", "read", "write"},
                               code : Nat]]
    /\ secrets \in Nat
    /\ lapped \in BOOLEAN
    /\ ~lapped =>
          /\ account.enabled => account.secret \in proved
          /\ \A c \in Two : Stepping(c, "enable", "write") => account.secret \in proved
          /\ \A c, d \in Two : Factor!Changing(c) /\ Factor!Changing(d) => c = d

\* A call goes on, and leaves the account alone.
LEMMA FactorCallKeeps ==
    ASSUME FactorInv, NEW c \in Two, NEW k \in Factor!Kinds,
           NEW s \in {"idle", "read", "write"}, NEW n \in Nat,
           factorCall' = [factorCall EXCEPT ![c] = [kind |-> k, step |-> s, code |-> n]],
           UNCHANGED account, UNCHANGED secrets, proved \subseteq proved',
           lapped' \in BOOLEAN, lapped => lapped',
           ~lapped' /\ k \in {"setup", "enable", "disable"} /\ s # "idle" =>
               \A d \in Two : d # c => ~Factor!Changing(d),
           k = "enable" /\ s = "write" => account.secret \in proved'
    PROVE  FactorInv'
<1>1. PICK r : r = [kind |-> k, step |-> s, code |-> n]
    OBVIOUS
<1>2. /\ factorCall'[c] = r /\ r.kind = k /\ r.step = s
      /\ \A d \in Two : d # c => factorCall'[d] = factorCall[d]
      /\ factorCall' \in [Two -> [kind : Factor!Kinds, step : {"idle", "read", "write"},
                                  code : Nat]]
    BY <1>1 DEF FactorInv
<1>3. ASSUME ~lapped'
      PROVE  /\ account'.enabled => account'.secret \in proved'
             /\ \A d \in Two : Stepping(d, "enable", "write")' => account'.secret \in proved'
             /\ \A d, e \in Two : Factor!Changing(d)' /\ Factor!Changing(e)' => d = e
  <2>1. /\ account.enabled => account.secret \in proved
        /\ \A d \in Two : Stepping(d, "enable", "write") => account.secret \in proved
        /\ \A d, e \in Two : Factor!Changing(d) /\ Factor!Changing(e) => d = e
    BY <1>3 DEF FactorInv
  <2>2. \A d \in Two : d # c => (Factor!Changing(d)' <=> Factor!Changing(d))
    BY <1>2 DEF Factor!Changing
  <2>3. Factor!Changing(c)' => \A d \in Two : d # c => ~Factor!Changing(d)
    BY <1>2, <1>3 DEF Factor!Changing
  <2>4. \A d \in Two : Stepping(d, "enable", "write")' => account'.secret \in proved'
    BY <1>2, <2>1 DEF Stepping
  <2> QED
    BY <2>1, <2>2, <2>3, <2>4
<1> QED
    BY <1>2, <1>3 DEF FactorInv

\* Every step of the calls, of an admin, and of the clock.
LEMMA FactorStep ==
    ASSUME FactorInv, Factor!Next
    PROVE  FactorInv'
<1>1. /\ account \in [active : BOOLEAN, enabled : BOOLEAN, secret : Nat]
      /\ factorCall \in [Two -> [kind : Factor!Kinds, step : {"idle", "read", "write"},
                                 code : Nat]]
      /\ secrets \in Nat /\ lapped \in BOOLEAN
    BY DEF FactorInv
<1>2. \A c \in Two : /\ factorCall[c].kind \in Factor!Kinds /\ factorCall[c].code \in Nat
                     /\ factorCall[c].step \in {"idle", "read", "write"}
    BY <1>1
<1>3. Factor!Idle = [kind |-> "login", step |-> "idle", code |-> 0] /\ "login" \in Factor!Kinds
    BY DEF Factor!Idle, Factor!NoSecret, Factor!Kinds
<1>4. ASSUME NEW c \in Two, NEW k \in Factor!Kinds, NEW code \in 0..secrets,
             Factor!Begin(c, k, code)
      PROVE  FactorInv'
  <2>1. /\ factorCall' = [factorCall EXCEPT ![c] = [kind |-> k, step |-> "read", code |-> code]]
        /\ lapped' = (lapped \/ (k \in {"setup", "enable", "disable"}
                                   /\ \E d \in Two : Factor!Changing(d)))
        /\ UNCHANGED account /\ UNCHANGED secrets /\ UNCHANGED proved
    BY <1>4 DEF Factor!Begin
  <2>2. code \in Nat
    BY <1>1
  <2>3. lapped' \in BOOLEAN /\ (lapped => lapped')
    BY <2>1
  <2>4. ~lapped' /\ k \in {"setup", "enable", "disable"} =>
            \A d \in Two : d # c => ~Factor!Changing(d)
    BY <2>1
  <2> QED
    BY <2>1, <2>2, <2>3, <2>4, FactorCallKeeps
<1>5. ASSUME NEW c \in Two, Factor!Refuse(c) \/ Factor!Challenge(c) PROVE FactorInv'
  <2>1. /\ factorCall' = [factorCall EXCEPT ![c] = [kind |-> "login", step |-> "idle", code |-> 0]]
        /\ UNCHANGED lapped /\ UNCHANGED account /\ UNCHANGED secrets /\ UNCHANGED proved
    BY <1>3, <1>5 DEF Factor!Refuse, Factor!Challenge
  <2> QED
    BY <1>1, <1>3, <2>1, FactorCallKeeps
<1>6. ASSUME NEW c \in Two, Factor!Admit(c) PROVE FactorInv'
  <2>1. PICK k \in Factor!Kinds, n \in Nat :
           factorCall[c] = [kind |-> k, step |-> "read", code |-> n]
    BY <1>1, <1>6 DEF Factor!Admit
  <2>2. /\ factorCall' = [factorCall EXCEPT ![c] = [kind |-> k, step |-> "write", code |-> n]]
        /\ UNCHANGED lapped /\ UNCHANGED account /\ UNCHANGED secrets
        /\ proved' = IF k = "enable" THEN proved \cup {account.secret} ELSE proved
    <3>1. factorCall' = [factorCall EXCEPT ![c].step = "write"]
      BY <1>6 DEF Factor!Admit
    <3>2. [factorCall[c] EXCEPT !.step = "write"] = [kind |-> k, step |-> "write", code |-> n]
      BY <2>1
    <3>3. factorCall' = [factorCall EXCEPT ![c] = [factorCall[c] EXCEPT !.step = "write"]]
      BY <3>1
    <3>4. /\ UNCHANGED lapped /\ UNCHANGED account /\ UNCHANGED secrets
          /\ proved' = IF factorCall[c].kind = "enable" THEN proved \cup {account.secret}
                       ELSE proved
      BY <1>6 DEF Factor!Admit
    <3> QED
      BY <2>1, <3>2, <3>3, <3>4
  <2>3. ~lapped' /\ k \in {"setup", "enable", "disable"} =>
            \A d \in Two : d # c => ~Factor!Changing(d)
    <3>1. k \in {"setup", "enable", "disable"} => Factor!Changing(c)
      BY <2>1 DEF Factor!Changing
    <3> QED
      BY <2>2, <3>1 DEF FactorInv
  <2>4. proved \subseteq proved' /\ (k = "enable" => account.secret \in proved')
    BY <2>2
  <2> QED
    BY <1>1, <2>2, <2>3, <2>4, FactorCallKeeps
<1>7. ASSUME NEW c \in Two, Factor!SignIn(c) PROVE FactorInv'
  <2>1. /\ factorCall' = [factorCall EXCEPT ![c] = [kind |-> "login", step |-> "idle", code |-> 0]]
        /\ UNCHANGED lapped /\ UNCHANGED account /\ UNCHANGED secrets /\ UNCHANGED proved
    BY <1>3, <1>7 DEF Factor!SignIn, Factor!Writes
  <2> QED
    BY <1>1, <1>3, <2>1, FactorCallKeeps
<1>8. ASSUME NEW c \in Two, Factor!SetupMfa(c) \/ Factor!EnableMfa(c) \/ Factor!DisableMfa(c)
      PROVE  FactorInv'
  <2>1. /\ factorCall' = [factorCall EXCEPT ![c] = [kind |-> "login", step |-> "idle", code |-> 0]]
        /\ UNCHANGED lapped /\ UNCHANGED proved
        /\ factorCall[c].step = "write" /\ factorCall[c].kind \in {"setup", "enable", "disable"}
        /\ secrets' \in Nat
    BY <1>1, <1>3, <1>8 DEF Factor!SetupMfa, Factor!EnableMfa, Factor!DisableMfa, Factor!Writes
  <2>2. account' \in [active : BOOLEAN, enabled : BOOLEAN, secret : Nat]
    <3>1. CASE Factor!SetupMfa(c)
      <4>1. PICK n \in Nat : n = secrets + 1
        BY <1>1
      <4>2. account' = [account EXCEPT !.secret = n, !.enabled = FALSE]
        BY <3>1, <4>1 DEF Factor!SetupMfa
      <4> QED
        BY <1>1, <4>2
    <3>2. CASE Factor!EnableMfa(c)
      BY <1>1, <3>2 DEF Factor!EnableMfa
    <3>3. CASE Factor!DisableMfa(c)
      BY <1>1, <3>3 DEF Factor!DisableMfa, Factor!NoSecret
    <3> QED
      BY <1>8, <3>1, <3>2, <3>3
  <2>3. PICK r : r = [kind |-> "login", step |-> "idle", code |-> 0]
    OBVIOUS
  <2>4. /\ factorCall'[c] = r /\ r.step = "idle"
        /\ \A d \in Two : d # c => factorCall'[d] = factorCall[d]
        /\ factorCall' \in [Two -> [kind : Factor!Kinds, step : {"idle", "read", "write"},
                                    code : Nat]]
    BY <1>1, <1>3, <2>1, <2>3
  <2>5. Factor!Changing(c)
    BY <2>1 DEF Factor!Changing
  <2>6. ASSUME ~lapped'
        PROVE  /\ account'.enabled => account'.secret \in proved'
               /\ \A d \in Two : Stepping(d, "enable", "write")' => account'.secret \in proved'
               /\ \A d, e \in Two : Factor!Changing(d)' /\ Factor!Changing(e)' => d = e
    <3>1. \A d \in Two : d # c => ~Factor!Changing(d)
      BY <2>1, <2>5, <2>6 DEF FactorInv
    <3>2. \A d \in Two : ~Factor!Changing(d)'
      BY <2>4, <3>1 DEF Factor!Changing
    <3>3. \A d \in Two : ~Stepping(d, "enable", "write")'
      BY <3>2 DEF Factor!Changing, Stepping
    <3>4. factorCall[c].kind = "enable" => account.secret \in proved
      BY <2>1, <2>6 DEF FactorInv, Stepping
    <3>5. account'.enabled => account'.secret \in proved'
      BY <1>1, <1>8, <2>1, <3>4
         DEF Factor!SetupMfa, Factor!EnableMfa, Factor!DisableMfa, Factor!Writes
    <3> QED
      BY <3>2, <3>3, <3>5
  <2> QED
    BY <2>1, <2>2, <2>4, <2>6 DEF FactorInv
<1>9. ASSUME Factor!Toggle \/ Factor!RunsOut PROVE FactorInv'
  <2>1. /\ UNCHANGED secrets /\ UNCHANGED proved /\ UNCHANGED factorCall /\ UNCHANGED lapped
        /\ account' \in [active : BOOLEAN, enabled : BOOLEAN, secret : Nat]
        /\ account'.enabled = account.enabled /\ account'.secret = account.secret
    BY <1>1, <1>9 DEF Factor!Toggle, Factor!RunsOut
  <2> QED
    BY <2>1 DEF FactorInv, Stepping, Factor!Changing
<1> QED
    BY <1>4, <1>5, <1>6, <1>7, <1>8, <1>9 DEF Factor!Next

\* For any number of calls, secrets and admins: a second factor that is on is one
\* its owner has shown to hold, unless calls that change it overlapped.
THEOREM FactorIsProved == Factor!Spec => []EnabledIsProved
<1>1. Factor!Init => FactorInv
  <2> SUFFICES ASSUME Factor!Init PROVE FactorInv
    OBVIOUS
  <2>1. /\ account = [active |-> TRUE, enabled |-> FALSE, secret |-> 0]
        /\ secrets = 0 /\ lapped = FALSE
    BY DEF Factor!Init, Factor!NoSecret
  <2>2. PICK r : r = Factor!Idle
    OBVIOUS
  <2>3. /\ r.kind = "login" /\ r.step = "idle"
        /\ r \in [kind : Factor!Kinds, step : {"idle", "read", "write"}, code : Nat]
    BY <2>2 DEF Factor!Idle, Factor!NoSecret, Factor!Kinds
  <2>4. factorCall = [c \in Two |-> r]
    BY <2>2 DEF Factor!Init
  <2>5. /\ factorCall \in [Two -> [kind : Factor!Kinds, step : {"idle", "read", "write"},
                                   code : Nat]]
        /\ \A c \in Two : factorCall[c].step = "idle"
    BY <2>3, <2>4
  <2> QED
    BY <2>1, <2>5 DEF FactorInv, Stepping, Factor!Changing
<1>2. FactorInv /\ [Factor!Next]_(Factor!vars) => FactorInv'
  <2>1. ASSUME FactorInv, UNCHANGED Factor!vars PROVE FactorInv'
    BY <2>1 DEF Factor!vars, FactorInv, Stepping, Factor!Changing
  <2> QED
    BY <2>1, FactorStep
<1>3. FactorInv => EnabledIsProved
    BY DEF FactorInv, EnabledIsProved, Factor!EnabledIsProved
<1> QED
  BY <1>1, <1>2, <1>3, PTL DEF Factor!Spec

-----------------------------------------------------------------------------
(***************************************************************************)
(* Database migrations.                                                    *)
(***************************************************************************)
RunnerState == [step : {"off", "apply", "mark", "done", "aborted"},
                applied : SUBSET Migrate!File, file : 1..(MaxFile + 1)]

\* A runner has left no file behind it unrecorded, and marks as applied only a
\* file whose tables it has run into.
RunnerIsRight(r) ==
    /\ runner[r].applied \subseteq recorded
    /\ runner[r].step \in {"apply", "mark", "done"} =>
          \A f \in Migrate!File : f < runner[r].file => f \in recorded
    /\ runner[r].step = "mark" => runner[r].file \in objects
    /\ runner[r].step = "done" => runner[r].file > MaxFile

MigrateInv ==
    /\ recorded \subseteq objects /\ objects \subseteq Migrate!File
    /\ runner \in [Two -> RunnerState]
    /\ \A r \in Two : RunnerIsRight(r)

\* A runner goes on, with tables and records that only grow.
LEMMA RunnerKeeps ==
    ASSUME MigrateInv, NEW r \in Two, NEW q \in RunnerState,
           runner' = [runner EXCEPT ![r] = q],
           recorded \subseteq recorded', recorded' \subseteq objects',
           objects \subseteq objects', objects' \subseteq Migrate!File,
           q.applied \subseteq recorded',
           q.step \in {"apply", "mark", "done"} =>
               \A f \in Migrate!File : f < q.file => f \in recorded',
           q.step = "mark" => q.file \in objects',
           q.step = "done" => q.file > MaxFile
    PROVE  MigrateInv'
<1>1. /\ runner' \in [Two -> RunnerState] /\ runner'[r] = q
      /\ \A s \in Two : s # r => runner'[s] = runner[s]
    BY DEF MigrateInv
<1>2. ASSUME NEW s \in Two PROVE RunnerIsRight(s)'
  <2>1. CASE s = r
    BY <1>1, <2>1 DEF RunnerIsRight
  <2>2. CASE s # r
    BY <1>1, <2>2 DEF MigrateInv, RunnerIsRight
  <2> QED
    BY <2>1, <2>2
<1> QED
    BY <1>1, <1>2 DEF MigrateInv

\* A runner takes a file, or the file after it.
LEMMA RunnerStates ==
    ASSUME MigrateInv, NEW r \in Two
    PROVE  /\ runner[r] \in RunnerState /\ runner[r].applied \subseteq Migrate!File
           /\ runner[r].file \in 1..(MaxFile + 1) /\ MaxFile \in Nat
           /\ \A s \in {"off", "apply", "mark", "done", "aborted"} :
                 /\ [runner[r] EXCEPT !.step = s] \in RunnerState
                 /\ [runner[r] EXCEPT !.step = s].step = s
                 /\ [runner[r] EXCEPT !.step = s].file = runner[r].file
                 /\ [runner[r] EXCEPT !.step = s].applied = runner[r].applied
           /\ runner[r].file \in Migrate!File =>
                 /\ [runner[r] EXCEPT !.file = @ + 1, !.step = "apply"] \in RunnerState
                 /\ [runner[r] EXCEPT !.file = @ + 1, !.step = "apply"].step = "apply"
                 /\ [runner[r] EXCEPT !.file = @ + 1, !.step = "apply"].file = runner[r].file + 1
                 /\ [runner[r] EXCEPT !.file = @ + 1, !.step = "apply"].applied
                       = runner[r].applied
<1>1. MaxFile \in Nat
    BY AdminAssumption
<1>2. runner[r] \in RunnerState
    BY DEF MigrateInv
<1>3. PICK a \in SUBSET Migrate!File, n \in 1..(MaxFile + 1),
           t \in {"off", "apply", "mark", "done", "aborted"} :
         runner[r] = [step |-> t, applied |-> a, file |-> n]
    BY <1>2 DEF RunnerState
<1>4. n \in Migrate!File => n + 1 \in 1..(MaxFile + 1)
    BY <1>1 DEF Migrate!File
<1>5. ASSUME NEW s \in {"off", "apply", "mark", "done", "aborted"}
      PROVE  [runner[r] EXCEPT !.step = s] = [step |-> s, applied |-> a, file |-> n]
    BY <1>3
<1>6. [runner[r] EXCEPT !.file = @ + 1, !.step = "apply"]
         = [step |-> "apply", applied |-> a, file |-> n + 1]
  <2>1. runner[r].file + 1 = n + 1
    BY <1>3
  <2>2. PICK m : m = n + 1
    OBVIOUS
  <2>3. [runner[r] EXCEPT !.file = m, !.step = "apply"]
           = [step |-> "apply", applied |-> a, file |-> m]
    <3>1. PICK x : x = [step |-> t, applied |-> a, file |-> n] /\ x = runner[r]
      BY <1>3
    <3>2. PICK y : y = [x EXCEPT !.file = m]
      OBVIOUS
    <3>3. y = [step |-> t, applied |-> a, file |-> m]
      BY <3>1, <3>2
    <3>4. [y EXCEPT !.step = "apply"] = [step |-> "apply", applied |-> a, file |-> m]
      BY <3>3
    <3> QED
      BY <3>1, <3>2, <3>4
  <2> QED
    BY <2>1, <2>2, <2>3
<1>7. \A s \in {"off", "apply", "mark", "done", "aborted"} :
         [step |-> s, applied |-> a, file |-> n] \in RunnerState
    BY DEF RunnerState
<1>8. n \in Migrate!File => [step |-> "apply", applied |-> a, file |-> n + 1] \in RunnerState
    BY <1>4 DEF RunnerState
<1>9. runner[r].applied = a /\ runner[r].file = n
    BY <1>3
<1> QED
    BY <1>1, <1>2, <1>5, <1>6, <1>7, <1>8, <1>9

\* A runner moves on to the next file only when this one is recorded.
LEMMA NextFileKeeps ==
    ASSUME MigrateInv, NEW r \in Two, Migrate!NextFile(r),
           runner[r].step \in {"apply", "mark"}, runner[r].file \in Migrate!File,
           recorded \subseteq recorded', recorded' \subseteq objects',
           objects \subseteq objects', objects' \subseteq Migrate!File,
           runner[r].file \in recorded'
    PROVE  MigrateInv'
<1>1. PICK q \in RunnerState :
         /\ q = [runner[r] EXCEPT !.file = @ + 1, !.step = "apply"]
         /\ q.step = "apply" /\ q.file = runner[r].file + 1 /\ q.applied = runner[r].applied
    BY RunnerStates
<1>2. runner' = [runner EXCEPT ![r] = q]
  <2>1. runner' = [runner EXCEPT ![r].file = @ + 1, ![r].step = "apply"]
    BY DEF Migrate!NextFile
  <2> QED
    BY <1>1, <2>1 DEF MigrateInv
<1>3. RunnerIsRight(r)
    BY DEF MigrateInv
<1>4. \A f \in Migrate!File : f < q.file => f \in recorded'
  <2>1. \A f \in Migrate!File : f < runner[r].file => f \in recorded
    BY <1>3 DEF RunnerIsRight
  <2>2. \A f \in Migrate!File : f < runner[r].file + 1 => f < runner[r].file \/ f = runner[r].file
    BY AdminAssumption DEF Migrate!File
  <2> QED
    BY <1>1, <2>1, <2>2
<1> QED
    BY <1>1, <1>2, <1>3, <1>4, RunnerKeeps DEF RunnerIsRight

\* A runner stops, or starts to mark.
LEMMA GoesKeeps ==
    ASSUME MigrateInv, NEW r \in Two, NEW s \in {"aborted", "done", "mark"},
           Migrate!Goes(r, s), UNCHANGED objects, UNCHANGED recorded,
           s = "mark" => runner[r].step = "apply" /\ runner[r].file \in objects,
           s = "done" => runner[r].step = "apply" /\ runner[r].file > MaxFile
    PROVE  MigrateInv'
<1>1. PICK q \in RunnerState :
         /\ q = [runner[r] EXCEPT !.step = s] /\ q.step = s
         /\ q.file = runner[r].file /\ q.applied = runner[r].applied
    BY ZenonT(60), RunnerStates
<1>2. runner' = [runner EXCEPT ![r] = q]
  <2>1. runner' = [runner EXCEPT ![r].step = s]
    BY DEF Migrate!Goes
  <2> QED
    BY <1>1, <2>1 DEF MigrateInv
<1>3. RunnerIsRight(r) /\ recorded \subseteq objects /\ objects \subseteq Migrate!File
    BY DEF MigrateInv
<1>4. q.applied \subseteq recorded
    BY <1>1, <1>3 DEF RunnerIsRight
<1>5. s # "aborted" => \A f \in Migrate!File : f < q.file => f \in recorded
    BY <1>1, <1>3 DEF RunnerIsRight
<1>6. (s = "mark" => q.file \in objects) /\ (s = "done" => q.file > MaxFile)
    BY <1>1
<1> QED
    BY <1>1, <1>2, <1>3, <1>4, <1>5, <1>6, RunnerKeeps

\* Every step of a runner.
LEMMA MigrateStep ==
    ASSUME MigrateInv, Migrate!Next
    PROVE  MigrateInv'
<1>1. recorded \subseteq objects /\ objects \subseteq Migrate!File
    BY DEF MigrateInv
<1>2. ASSUME NEW r \in Two, Migrate!Start(r) PROVE MigrateInv'
  <2>1. PICK q : q = [step |-> "apply", applied |-> recorded, file |-> 1]
    OBVIOUS
  <2>2. q \in RunnerState /\ q.step = "apply" /\ q.applied = recorded /\ q.file = 1
    BY <1>1, <2>1, AdminAssumption DEF RunnerState
  <2>3. /\ runner' = [runner EXCEPT ![r] = q]
        /\ UNCHANGED objects /\ UNCHANGED recorded
    BY <1>2, <2>1 DEF Migrate!Start
  <2>4. \A f \in Migrate!File : ~(f < 1)
    BY DEF Migrate!File
  <2> QED
    BY <1>1, <2>2, <2>3, <2>4, RunnerKeeps
<1>3. ASSUME NEW r \in Two, Migrate!Skip(r) PROVE MigrateInv'
  <2>1. runner[r].file \in recorded
    BY <1>3 DEF Migrate!Skip, MigrateInv, RunnerIsRight
  <2> QED
    BY <1>1, <1>3, <2>1, NextFileKeeps DEF Migrate!Skip, Migrate!At
<1>4. ASSUME NEW r \in Two, Migrate!Apply(r) PROVE MigrateInv'
  <2>1. /\ objects' = objects \cup {runner[r].file} /\ recorded' = recorded \cup {runner[r].file}
        /\ Migrate!NextFile(r) /\ runner[r].step = "apply" /\ runner[r].file \in Migrate!File
    BY <1>4 DEF Migrate!Apply, Migrate!At
  <2> QED
    BY <1>1, <2>1, NextFileKeeps
<1>5. ASSUME NEW r \in Two, Migrate!Mark(r) PROVE MigrateInv'
  <2>1. /\ UNCHANGED objects /\ recorded' = recorded \cup {runner[r].file}
        /\ Migrate!NextFile(r) /\ runner[r].step = "mark" /\ runner[r].file \in Migrate!File
    BY <1>5 DEF Migrate!Mark, Migrate!At
  <2>2. runner[r].file \in objects
    BY <2>1 DEF MigrateInv, RunnerIsRight
  <2> QED
    BY <1>1, <2>1, <2>2, NextFileKeeps
<1>6. ASSUME NEW r \in Two, Migrate!Finish(r) \/ Migrate!Killed(r) PROVE MigrateInv'
    BY <1>6, GoesKeeps DEF Migrate!Finish, Migrate!Killed
<1>7. ASSUME NEW r \in Two, NEW e \in {"already exists", "duplicate key", "connection"},
             Migrate!RollBack(r, e)
      PROVE  MigrateInv'
  <2>1. runner[r].step = "apply" /\ UNCHANGED objects /\ UNCHANGED recorded
    BY <1>7 DEF Migrate!RollBack, Migrate!Refused, Migrate!At
  <2>2. CASE e = "already exists"
    <3>1. Migrate!Goes(r, "mark") /\ runner[r].file \in objects
      BY <1>7, <2>2 DEF Migrate!RollBack, Migrate!Refused, Migrate!MayMark,
                        Migrate!AlreadyExists
    <3> QED
      BY <2>1, <3>1, GoesKeeps
  <2>3. CASE e # "already exists"
    <3>1. Migrate!Goes(r, "aborted")
      BY <1>7, <2>3 DEF Migrate!RollBack, Migrate!MayMark
    <3> QED
      BY <2>1, <3>1, GoesKeeps
  <2> QED
    BY <2>2, <2>3
<1> QED
    BY <1>2, <1>3, <1>4, <1>5, <1>6, <1>7 DEF Migrate!Next

\* However many runners overlap, lose their connection or are killed, over any
\* number of files: nothing is recorded whose tables are missing, and a run that
\* finishes leaves every file applied.
THEOREM DeploysApply == Migrate!Spec => []DeploysAreSafe
<1>1. Migrate!Init => MigrateInv
  <2> SUFFICES ASSUME Migrate!Init PROVE MigrateInv
    OBVIOUS
  <2>1. PICK n \in 0..MaxFile : objects = 1..n
    BY DEF Migrate!Init
  <2>2. recorded = {} /\ runner = [r \in Two |-> Migrate!Off]
    BY DEF Migrate!Init
  <2>3. PICK q : q = Migrate!Off
    OBVIOUS
  <2>4. q \in RunnerState /\ q.step = "off" /\ q.applied = {}
    BY <2>3, AdminAssumption DEF Migrate!Off, RunnerState
  <2>5. runner \in [Two -> RunnerState] /\ \A r \in Two : runner[r] = q
    BY <2>2, <2>3, <2>4
  <2>6. objects \subseteq Migrate!File
    BY <2>1, AdminAssumption DEF Migrate!File
  <2> QED
    BY <2>2, <2>4, <2>5, <2>6 DEF MigrateInv, RunnerIsRight
<1>2. MigrateInv /\ [Migrate!Next]_(Migrate!vars) => MigrateInv'
  <2>1. ASSUME MigrateInv, UNCHANGED Migrate!vars PROVE MigrateInv'
    BY <2>1 DEF Migrate!vars, MigrateInv, RunnerIsRight
  <2> QED
    BY <2>1, MigrateStep
<1>3. MigrateInv => DeploysAreSafe
  <2> SUFFICES ASSUME MigrateInv PROVE Migrate!DeploysAreSafe
    BY DEF DeploysAreSafe
  <2>1. recorded \subseteq Migrate!File
    BY DEF MigrateInv
  <2>2. ASSUME NEW r \in Two, runner[r].step = "done" PROVE Migrate!File \subseteq recorded
    <3>1. RunnerIsRight(r) /\ runner[r].file \in 1..(MaxFile + 1) /\ MaxFile \in Nat
      BY RunnerStates DEF MigrateInv
    <3>2. \A f \in Migrate!File : f < runner[r].file
      BY <2>2, <3>1 DEF RunnerIsRight, Migrate!File
    <3> QED
      BY <2>2, <3>1, <3>2 DEF RunnerIsRight
  <2> QED
    BY <2>1, <2>2 DEF MigrateInv, Migrate!DeploysAreSafe
<1> QED
  BY <1>1, <1>2, <1>3, PTL DEF Migrate!Spec

-----------------------------------------------------------------------------
(***************************************************************************)
(* The allow-list cache of an ingest node.                                 *)
(***************************************************************************)
\* What the shared set said of d at time t or later.
SaidSince(d, ok, t) == IF ok THEN lastOn[d] >= t ELSE lastOff[d] >= t

\* A cached answer is no older than its expiry tells, an answer on its way is no
\* older than its question, and a verdict is recent.
AllowInv ==
    /\ now \in Nat
    /\ lastOn \in [One -> Int] /\ lastOff \in [One -> Int]
    /\ \A d \in One :
          /\ lastOn[d] <= now /\ lastOff[d] <= now
          /\ d \in allowed => lastOn[d] = now
          /\ d \notin allowed => lastOff[d] = now
    /\ DOMAIN allowCache = One
    /\ \A d \in One : allowCache[d] # None =>
          /\ allowCache[d].exp \in Int
          /\ SaidSince(d, allowCache[d].allowed, allowCache[d].exp - AllowTtl)
    /\ lookup \in [Two -> Allow!Lookup]
    /\ \A k \in Two : lookup[k].phase # "free" =>
          /\ lookup[k].dev \in One
          /\ lookup[k].asked <= now
          /\ lookup[k].phase = "answered" =>
                SaidSince(lookup[k].dev, lookup[k].answer, lookup[k].asked)
    /\ verdict # None =>
          /\ verdict.dev \in One /\ verdict.asked \in Nat
          /\ Allow!Recent(verdict)

\* The clock and the set move on: what was said since a time still was.
LEMMA TimeKeeps ==
    ASSUME AllowInv, Allow!Tick \/ \E d \in One : Allow!SwitchAllowed(d)
    PROVE  AllowInv'
<1>1. /\ UNCHANGED allowCache /\ UNCHANGED lookup /\ UNCHANGED verdict
    BY DEF Allow!Tick, Allow!SwitchAllowed
<1>2. /\ now' \in Nat /\ now' >= now
      /\ lastOn' \in [One -> Int] /\ lastOff' \in [One -> Int]
      /\ \A d \in One :
            /\ lastOn[d] \in Int /\ lastOff[d] \in Int
            /\ lastOn'[d] >= lastOn[d] /\ lastOff'[d] >= lastOff[d]
            /\ lastOn'[d] <= now' /\ lastOff'[d] <= now'
            /\ d \in allowed' => lastOn'[d] = now'
            /\ d \notin allowed' => lastOff'[d] = now'
  <2>1. CASE Allow!Tick
    <3>1. PICK n \in Nat : n = now
      BY DEF AllowInv
    <3>2. /\ now' = n + 1 /\ UNCHANGED allowed
          /\ lastOn' = [d \in One |-> IF d \in allowed THEN n + 1 ELSE lastOn[d]]
          /\ lastOff' = [d \in One |-> IF d \in allowed THEN lastOff[d] ELSE n + 1]
      BY <2>1, <3>1 DEF Allow!Tick
    <3> QED
      BY <3>1, <3>2 DEF AllowInv
  <2>2. ASSUME NEW e \in One, Allow!SwitchAllowed(e)
        PROVE  /\ now' \in Nat /\ now' >= now
               /\ lastOn' \in [One -> Int] /\ lastOff' \in [One -> Int]
               /\ \A d \in One :
                     /\ lastOn[d] \in Int /\ lastOff[d] \in Int
                     /\ lastOn'[d] >= lastOn[d] /\ lastOff'[d] >= lastOff[d]
                     /\ lastOn'[d] <= now' /\ lastOff'[d] <= now'
                     /\ d \in allowed' => lastOn'[d] = now'
                     /\ d \notin allowed' => lastOff'[d] = now'
    <3>1. UNCHANGED now
      BY <2>2 DEF Allow!SwitchAllowed
    <3>2. CASE e \in allowed
      <4>1. /\ allowed' = allowed \ {e} /\ lastOff' = [lastOff EXCEPT ![e] = now]
            /\ UNCHANGED lastOn
        BY <2>2, <3>2 DEF Allow!SwitchAllowed
      <4> QED
        BY <3>1, <4>1 DEF AllowInv
    <3>3. CASE e \notin allowed
      <4>1. /\ allowed' = allowed \cup {e} /\ lastOn' = [lastOn EXCEPT ![e] = now]
            /\ UNCHANGED lastOff
        BY <2>2, <3>3 DEF Allow!SwitchAllowed
      <4> QED
        BY <3>1, <4>1 DEF AllowInv
    <3> QED
      BY <3>2, <3>3
  <2> QED
    BY <2>1, <2>2
<1>3. AllowTtl \in Nat
    BY AdminAssumption
<1>4. ASSUME NEW d \in One, allowCache'[d] # None
      PROVE  /\ allowCache'[d].exp \in Int
             /\ SaidSince(d, allowCache[d].allowed, allowCache[d].exp - AllowTtl)'
  <2>1. PICK t \in Int : t = allowCache[d].exp - AllowTtl
    BY <1>1, <1>3, <1>4 DEF AllowInv
  <2>2. SaidSince(d, allowCache[d].allowed, t) /\ allowCache[d].exp \in Int
    BY <1>1, <1>4, <2>1 DEF AllowInv
  <2>3. SaidSince(d, allowCache[d].allowed, t)'
    BY <1>1, <1>2, <2>2 DEF SaidSince
  <2> QED
    BY <1>1, <2>1, <2>2, <2>3 DEF SaidSince
<1>5. ASSUME NEW k \in Two, lookup'[k].phase # "free"
      PROVE  /\ lookup'[k].dev \in One
             /\ lookup'[k].asked <= now'
             /\ lookup'[k].phase = "answered" =>
                   SaidSince(lookup[k].dev, lookup[k].answer, lookup[k].asked)'
  <2>1. PICK d \in One, t \in Nat : d = lookup[k].dev /\ t = lookup[k].asked /\ t <= now
    BY <1>1, <1>5 DEF AllowInv, Allow!Lookup
  <2>2. lookup[k].phase = "answered" => SaidSince(d, lookup[k].answer, t)
    BY <1>1, <1>5, <2>1 DEF AllowInv
  <2>3. t <= now' /\ now \in Nat
    BY <1>2, <2>1 DEF AllowInv
  <2>4. lookup[k].phase = "answered" => SaidSince(d, lookup[k].answer, t)'
    BY <1>1, <1>2, <2>2 DEF SaidSince
  <2> QED
    BY <1>1, <2>1, <2>3, <2>4 DEF SaidSince
<1>6. ASSUME verdict' # None
      PROVE  /\ verdict'.dev \in One /\ verdict'.asked \in Nat
             /\ Allow!Recent(verdict)'
  <2>1. PICK d \in One, t \in Int : d = verdict.dev /\ t = verdict.asked - AllowTtl
    BY <1>1, <1>3, <1>6 DEF AllowInv
  <2>2. (IF verdict.ok THEN lastOn[d] > t ELSE lastOff[d] > t) /\ verdict.asked \in Nat
    BY <1>1, <1>6, <2>1 DEF AllowInv, Allow!Recent
  <2>3. IF verdict.ok THEN lastOn'[d] > t ELSE lastOff'[d] > t
    BY <1>2, <2>2
  <2> QED
    BY <1>1, <2>1, <2>2, <2>3 DEF Allow!Recent
<1> QED
    BY <1>1, <1>2, <1>4, <1>5, <1>6 DEF AllowInv

\* A verdict rests on an answer: of the cache, or of Redis.
LEMMA DecideIsRecent ==
    ASSUME AllowInv, NEW d \in One, NEW p, NEW t \in Nat, NEW ok, NEW e \in Int,
           Allow!Decide(d, p, t, ok), SaidSince(d, ok, e), e > t - AllowTtl,
           UNCHANGED lastOn, UNCHANGED lastOff
    PROVE  verdict'.dev \in One /\ verdict'.asked \in Nat /\ Allow!Recent(verdict)'
<1>1. verdict' = [for |-> p, dev |-> d, asked |-> t, ok |-> ok]
    BY DEF Allow!Decide
<1>2. verdict'.dev = d /\ verdict'.asked = t /\ verdict'.ok = ok
    BY <1>1
<1>3. PICK a \in Int, b \in Int, u \in Int : a = lastOn[d] /\ b = lastOff[d] /\ u = t - AllowTtl
    BY AdminAssumption DEF AllowInv
<1>4. IF ok THEN a > u ELSE b > u
    BY <1>3 DEF SaidSince
<1> QED
    BY <1>2, <1>3, <1>4 DEF Allow!Recent

\* A lookup hits the cache, or takes its way to Redis and back.
LEMMA LookupKeeps ==
    ASSUME AllowInv,
           \/ \E d \in One, p \in Allow!Purpose : Allow!Hit(d, p) \/ \E k \in Two : Allow!Ask(k, d, p)
           \/ \E k \in Two : Allow!Reply(k) \/ Allow!Resolve(k)
           \/ \E d \in One : Allow!HangUp(d)
    PROVE  AllowInv'
<1>1. /\ UNCHANGED now /\ UNCHANGED allowed /\ UNCHANGED lastOn /\ UNCHANGED lastOff
    BY DEF Allow!Hit, Allow!Ask, Allow!Reply, Allow!Resolve, Allow!HangUp
<1>2. AllowTtl \in Nat /\ AllowTtl > 0 /\ now \in Nat
    BY AdminAssumption DEF AllowInv
<1>3. ASSUME NEW d \in One, NEW p \in Allow!Purpose, Allow!Hit(d, p) PROVE AllowInv'
  <2>1. /\ UNCHANGED allowCache /\ UNCHANGED lookup
        /\ Allow!Decide(d, p, now, allowCache[d].allowed)
        /\ allowCache[d] # None /\ allowCache[d].exp > now
    BY <1>3 DEF Allow!Hit, Allow!Fresh
  <2>2. PICK e \in Int : e = allowCache[d].exp - AllowTtl
    BY <1>2, <2>1 DEF AllowInv
  <2>3. SaidSince(d, allowCache[d].allowed, e) /\ e > now - AllowTtl
    BY <1>2, <2>1, <2>2 DEF AllowInv
  <2>4. verdict'.dev \in One /\ verdict'.asked \in Nat /\ Allow!Recent(verdict)'
    BY <1>1, <1>2, <2>1, <2>3, DecideIsRecent
  <2> QED
    BY <1>1, <2>1, <2>4 DEF AllowInv, SaidSince
<1>4. ASSUME NEW k \in Two, NEW r \in Allow!Lookup, lookup' = [lookup EXCEPT ![k] = r],
             UNCHANGED allowCache, UNCHANGED verdict,
             r.phase # "free" =>
                 /\ r.dev \in One /\ r.asked <= now
                 /\ r.phase = "answered" => SaidSince(r.dev, r.answer, r.asked)
      PROVE  AllowInv'
  <2>1. /\ lookup'[k] = r /\ lookup' \in [Two -> Allow!Lookup]
        /\ \A j \in Two : j # k => lookup'[j] = lookup[j]
    BY <1>4 DEF AllowInv
  <2> QED
    BY <1>1, <1>4, <2>1 DEF AllowInv, SaidSince, Allow!Recent
<1>5. ASSUME NEW k \in Two, NEW d \in One, NEW p \in Allow!Purpose, Allow!Ask(k, d, p)
      PROVE  AllowInv'
  <2>1. PICK r : r = [dev |-> d, for |-> p, phase |-> "asking", asked |-> now, answer |-> FALSE]
    OBVIOUS
  <2>2. /\ lookup' = [lookup EXCEPT ![k] = r] /\ UNCHANGED allowCache /\ UNCHANGED verdict
    BY <1>5, <2>1 DEF Allow!Ask
  <2>3. r \in Allow!Lookup /\ r.dev = d /\ r.phase = "asking" /\ r.asked = now
    BY <1>2, <2>1 DEF Allow!Lookup
  <2>4. r.phase # "answered" /\ r.dev \in One /\ r.asked <= now
    BY <1>2, <2>3
  <2> QED
    BY <1>4, <2>2, <2>3, <2>4
<1>6. ASSUME NEW k \in Two, Allow!Reply(k) PROVE AllowInv'
  <2>1. /\ lookup[k] \in Allow!Lookup /\ lookup[k].phase = "asking"
        /\ UNCHANGED allowCache /\ UNCHANGED verdict
        /\ lookup' = [lookup EXCEPT ![k].phase = "answered",
                                    ![k].answer = (lookup[k].dev \in allowed)]
    BY <1>6 DEF AllowInv, Allow!Reply, Allow!sismember
  <2>2. PICK x : x = lookup[k]
    OBVIOUS
  <2>3. PICK y : y = [x EXCEPT !.phase = "answered"]
    OBVIOUS
  <2>4. PICK b \in BOOLEAN : b <=> x.dev \in allowed
    OBVIOUS
  <2>5. PICK r : r = [y EXCEPT !.answer = b]
    OBVIOUS
  <2>6. y \in Allow!Lookup /\ y.phase = "answered" /\ y.dev = x.dev /\ y.asked = x.asked
    BY <2>1, <2>2, <2>3 DEF Allow!Lookup
  <2>7. /\ r \in Allow!Lookup /\ r.phase = "answered" /\ r.dev = x.dev /\ r.asked = x.asked
        /\ r.answer = b
    BY <2>5, <2>6 DEF Allow!Lookup
  <2>8. lookup' = [lookup EXCEPT ![k] = r]
    <3>1. b = (lookup[k].dev \in allowed)
      BY <2>2, <2>4
    <3> QED
      BY <2>1, <2>2, <2>3, <2>5, <3>1 DEF AllowInv
  <2>9. x.dev \in One /\ x.asked <= now /\ x.asked \in Nat
    BY <2>1, <2>2 DEF AllowInv, Allow!Lookup
  <2>10. SaidSince(r.dev, r.answer, r.asked)
    BY <2>4, <2>7, <2>9 DEF AllowInv, SaidSince
  <2> QED
    BY <1>4, <2>1, <2>7, <2>8, <2>9, <2>10
<1>7. ASSUME NEW k \in Two, Allow!Resolve(k) PROVE AllowInv'
  <2>0. PICK p, ok : p = lookup[k].for /\ ok = lookup[k].answer
    OBVIOUS
  <2>1. PICK d \in One, t \in Nat : /\ d = lookup[k].dev /\ t = lookup[k].asked /\ t <= now
                                   /\ p = lookup[k].for /\ ok = lookup[k].answer
    BY <1>7, <2>0 DEF AllowInv, Allow!Resolve, Allow!Lookup
  <2>2. SaidSince(d, ok, t)
    BY <1>7, <2>1 DEF AllowInv, Allow!Resolve
  <2>3. PICK e \in Nat : e = t + AllowTtl
    BY <1>2
  <2>4. PICK c : c = [allowed |-> ok, exp |-> e]
    OBVIOUS
  <2>5. /\ allowCache' = [allowCache EXCEPT ![d] = c]
        /\ Allow!Decide(d, p, t, ok)
        /\ lookup' = [lookup EXCEPT ![k] = Allow!Idle]
    BY <1>7, <2>1, <2>3, <2>4 DEF Allow!Resolve, Allow!Expiry
  <2>6. verdict'.dev \in One /\ verdict'.asked \in Nat /\ Allow!Recent(verdict)'
    <3>1. t > t - AllowTtl /\ t \in Int
      BY <1>2
    <3> QED
      BY <1>1, <2>2, <2>5, <3>1, DecideIsRecent
  <2>7. /\ DOMAIN allowCache' = One /\ allowCache'[d] = c
        /\ \A x \in One : x # d => allowCache'[x] = allowCache[x]
    BY <2>5 DEF AllowInv
  <2>8. c.exp = e /\ c.allowed = ok /\ e - AllowTtl = t /\ e \in Int
    BY <1>2, <2>3, <2>4
  <2>9. PICK r : r = Allow!Idle
    OBVIOUS
  <2>10. r \in Allow!Lookup /\ r.phase = "free"
    BY <2>9 DEF Allow!Idle, Allow!Lookup, Allow!Purpose
  <2>11. /\ lookup' \in [Two -> Allow!Lookup] /\ lookup'[k] = r
         /\ \A j \in Two : j # k => lookup'[j] = lookup[j]
    BY <2>5, <2>9, <2>10 DEF AllowInv
  <2>12. ASSUME NEW x \in One, allowCache'[x] # None
         PROVE  /\ allowCache'[x].exp \in Int
                /\ SaidSince(x, allowCache[x].allowed, allowCache[x].exp - AllowTtl)'
    <3>1. CASE x = d
      BY <1>1, <2>2, <2>7, <2>8, <3>1 DEF SaidSince
    <3>2. CASE x # d
      BY <1>1, <2>7, <2>12, <3>2 DEF AllowInv, SaidSince
    <3> QED
      BY <3>1, <3>2
  <2>13. ASSUME NEW j \in Two, lookup'[j].phase # "free"
         PROVE  /\ lookup'[j].dev \in One /\ lookup'[j].asked <= now'
                /\ lookup'[j].phase = "answered" =>
                      SaidSince(lookup[j].dev, lookup[j].answer, lookup[j].asked)'
    BY <1>1, <2>10, <2>11, <2>13 DEF AllowInv, SaidSince
  <2> QED
    BY <1>1, <2>6, <2>7, <2>11, <2>12, <2>13 DEF AllowInv
<1>8. ASSUME NEW d \in One, Allow!HangUp(d) PROVE AllowInv'
  <2>1. UNCHANGED allowCache /\ UNCHANGED lookup /\ UNCHANGED verdict
    BY <1>8 DEF Allow!HangUp
  <2> QED
    BY <1>1, <2>1 DEF AllowInv, SaidSince, Allow!Recent
<1> QED
    BY <1>3, <1>5, <1>6, <1>7, <1>8

\* For any devices, lookups and times: a decision to accept or reject rests on what
\* the set said later than a TTL before the question, however lookups overlap and
\* overtake one another.
THEOREM LookupsStayRecent == Allow!Spec => []LookupsAreRecent
<1>1. Allow!Init => AllowInv
  <2> SUFFICES ASSUME Allow!Init PROVE AllowInv
    OBVIOUS
  <2>1. /\ now = 0 /\ verdict = None
        /\ lastOn = [d \in One |-> IF d \in allowed THEN 0 ELSE Allow!Never]
        /\ lastOff = [d \in One |-> IF d \in allowed THEN Allow!Never ELSE 0]
        /\ allowCache = [d \in One |-> None]
        /\ lookup = [k \in Two |-> Allow!Idle]
    BY DEF Allow!Init
  <2>2. PICK n \in Int : n = Allow!Never /\ n <= 0
    BY AdminAssumption DEF Allow!Never
  <2>3. PICK r : r = Allow!Idle
    OBVIOUS
  <2>4. r \in Allow!Lookup /\ r.phase = "free"
    BY <2>3 DEF Allow!Idle, Allow!Lookup, Allow!Purpose
  <2>5. lookup \in [Two -> Allow!Lookup] /\ \A k \in Two : lookup[k].phase = "free"
    BY <2>1, <2>3, <2>4
  <2> QED
    BY <2>1, <2>2, <2>5 DEF AllowInv
<1>2. AllowInv /\ [Allow!Next]_(Allow!vars) => AllowInv'
  <2>1. ASSUME AllowInv, UNCHANGED Allow!vars PROVE AllowInv'
    BY <2>1 DEF Allow!vars, AllowInv, SaidSince, Allow!Recent
  <2> QED
    BY <2>1, TimeKeeps, LookupKeeps DEF Allow!Next
<1>3. AllowInv => LookupsAreRecent
    BY DEF AllowInv, LookupsAreRecent, Allow!LookupsAreRecent
<1> QED
  BY <1>1, <1>2, <1>3, PTL DEF Allow!Spec

-----------------------------------------------------------------------------
(***************************************************************************)
(* The caches of the telemetry consumer.                                   *)
(***************************************************************************)
\* What the messages of the batch have been given was no older then than a cache
\* lives and a query takes, and the batch does not last; what they are handled with
\* is no older than all of these; and what was removed is marked.
HeldInv ==
    /\ held \subseteq [val : Lookup!Value, at : Nat, forgotten : BOOLEAN]
    /\ \A h \in held :
          /\ h.at <= clock /\ clock <= h.at + Lookup!Hold
          /\ ended[h.val] # 0 => h.at <= ended[h.val] + Lookup!Lifetime(h.val) + MaxLatency
          /\ kind = "imei" => h.val # 0
    /\ used \subseteq [val : Lookup!Value, at : Nat]
    /\ Lookup!StalenessIsBounded
    /\ kind = "imei" /\ ~change /\ ~crossed =>
          \A h \in held : h.val = source \/ h.forgotten

\* What the consumer has read was true when it read it, and what it takes from the
\* cache it has read so long ago at most.
LookupInv ==
    /\ clock \in Nat /\ clock > 0
    /\ values \in Lookup!Value /\ source \in Lookup!Value
    /\ ended \in [Lookup!Value -> Nat]
    /\ \A v \in Lookup!Value : ended[v] <= clock
    /\ ended[source] = 0
    /\ cache \in [val : Lookup!Value, exp : Nat]
    /\ cache.exp <= clock + Lookup!Lifetime(cache.val)
    /\ ended[cache.val] # 0 =>
          cache.exp <= ended[cache.val] + Lookup!Lifetime(cache.val) + MaxLatency
    /\ query \subseteq [val : Lookup!Value, at : Nat]
    /\ \A q \in query : /\ q.at <= clock /\ clock <= q.at + MaxLatency
                        /\ ended[q.val] # 0 => q.at <= ended[q.val]
    /\ HeldInv
    /\ change \in BOOLEAN /\ crossed \in BOOLEAN
    /\ kind = "imei" /\ ~change /\ ~crossed =>
          /\ cache.val \in {0, source}
          /\ \A q \in query : q.val \in {0, source}

\* Lifetimes are numbers.
LEMMA LifetimeIsNat ==
    ASSUME NEW v
    PROVE  Lookup!Lifetime(v) \in Nat /\ Lookup!Ttl(v) = Lookup!Lifetime(v)
    BY AdminAssumption DEF Lookup!Lifetime, Lookup!Ttl

LEMMA HoldIsNat == Lookup!Hold \in Nat
    BY AdminAssumption DEF Lookup!Hold

\* A message is given what ended no longer ago than a cache lives and a query takes.
LEMMA GiveKeeps ==
    ASSUME LookupInv, NEW v \in Lookup!Value, Lookup!Give(v),
           UNCHANGED <<kind, clock, source, ended, change, crossed>>,
           ended[v] # 0 => clock <= ended[v] + Lookup!Lifetime(v) + MaxLatency,
           kind = "imei" /\ ~change /\ ~crossed => v \in {0, source}
    PROVE  HeldInv'
<1>1. \A x : Lookup!Lifetime(x)' = Lookup!Lifetime(x)
    BY DEF Lookup!Lifetime
<1>2. Lookup!Hold' = Lookup!Hold
    BY DEF Lookup!Hold
<1>3. PICK l \in Nat, b \in Nat : l = Lookup!Lifetime(v) /\ b = Lookup!Hold
    BY LifetimeIsNat, HoldIsNat
<1>4. MaxLatency \in Nat /\ clock \in Nat /\ ended[v] \in Nat
    BY AdminAssumption DEF LookupInv
<1>5. CASE kind = "imei" /\ v = 0
  <2>1. PICK u : u = [val |-> v, at |-> clock]
    OBVIOUS
  <2>2. /\ UNCHANGED held /\ used' = {u} /\ u \in [val : Lookup!Value, at : Nat]
        /\ u.val = v /\ u.at = clock
    BY <1>4, <1>5, <2>1 DEF Lookup!Give
  <2>3. ended[v] # 0 => clock <= ended[v] + l + MaxLatency + b
    BY <1>3, <1>4
  <2>4. Lookup!StalenessIsBounded'
    BY <1>1, <1>2, <1>3, <2>2, <2>3 DEF Lookup!StalenessIsBounded
  <2> QED
    BY <1>1, <1>2, <2>2, <2>4 DEF LookupInv, HeldInv
<1>6. CASE ~(kind = "imei" /\ v = 0)
  <2>1. PICK g : g = [val |-> v, at |-> clock, forgotten |-> FALSE]
    OBVIOUS
  <2>2. /\ held' = held \cup {g} /\ used' = {} /\ g.val = v /\ g.at = clock
        /\ g \in [val : Lookup!Value, at : Nat, forgotten : BOOLEAN]
    BY <1>4, <1>6, <2>1 DEF Lookup!Give
  <2>3. Lookup!StalenessIsBounded'
    BY <2>2 DEF Lookup!StalenessIsBounded
  <2>4. /\ g.at <= clock' /\ clock' <= g.at + Lookup!Hold'
        /\ ended'[g.val] # 0 => g.at <= ended'[g.val] + Lookup!Lifetime(g.val)' + MaxLatency
        /\ kind' = "imei" => g.val # 0
    BY <1>1, <1>2, <1>3, <1>4, <1>6, <2>2
  <2>5. kind' = "imei" /\ ~change' /\ ~crossed' => g.val = source'
    BY <1>6, <2>2
  <2>6. \A h \in held' : h \in held \/ h = g
    BY <2>2
  <2>7. held' \subseteq [val : Lookup!Value, at : Nat, forgotten : BOOLEAN]
    BY <2>2 DEF LookupInv, HeldInv
  <2>8. ASSUME NEW h \in held'
        PROVE  /\ h.at <= clock' /\ clock' <= h.at + Lookup!Hold'
               /\ ended'[h.val] # 0 =>
                     h.at <= ended'[h.val] + Lookup!Lifetime(h.val)' + MaxLatency
               /\ kind' = "imei" => h.val # 0
    BY <1>1, <1>2, <2>4, <2>6 DEF LookupInv, HeldInv
  <2>9. kind' = "imei" /\ ~change' /\ ~crossed' =>
           \A h \in held' : h.val = source' \/ h.forgotten
    BY <2>5, <2>6 DEF LookupInv, HeldInv
  <2> QED
    BY <2>2, <2>3, <2>7, <2>8, <2>9 DEF HeldInv
<1> QED
    BY <1>5, <1>6

\* The batch is inserted: what it was given is older by the batch now.
LEMMA BatchKeeps ==
    ASSUME LookupInv, Lookup!Insert
    PROVE  LookupInv'
<1>1. /\ UNCHANGED kind /\ UNCHANGED clock /\ UNCHANGED source /\ UNCHANGED values
      /\ UNCHANGED change /\ UNCHANGED crossed /\ UNCHANGED ended
      /\ UNCHANGED cache /\ UNCHANGED query
      /\ held' = {} /\ used' = {[val |-> h.val, at |-> clock] : h \in held}
    BY DEF Lookup!Insert, Lookup!tables
<1>2. \A x : Lookup!Lifetime(x)' = Lookup!Lifetime(x)
    BY <1>1 DEF Lookup!Lifetime
<1>3. Lookup!Hold' = Lookup!Hold
    BY <1>1 DEF Lookup!Hold
<1>4. MaxLatency \in Nat /\ clock \in Nat
    BY AdminAssumption DEF LookupInv
<1>5. ASSUME NEW u \in used'
      PROVE  /\ u \in [val : Lookup!Value, at : Nat]
             /\ ended[u.val] # 0 =>
                   u.at <= ended[u.val] + Lookup!Lifetime(u.val) + MaxLatency + Lookup!Hold
  <2>1. PICK h \in held : u = [val |-> h.val, at |-> clock]
    BY <1>1
  <2>2. PICK v \in Lookup!Value, a \in Nat, l \in Nat, b \in Nat :
           v = h.val /\ a = h.at /\ l = Lookup!Lifetime(v) /\ b = Lookup!Hold
    BY LifetimeIsNat, HoldIsNat DEF LookupInv, HeldInv
  <2>3. u.val = v /\ u.at = clock /\ u \in [val : Lookup!Value, at : Nat]
    BY <1>4, <2>1, <2>2
  <2>4. clock <= a + b /\ (ended[v] # 0 => a <= ended[v] + l + MaxLatency)
    BY <2>2 DEF LookupInv, HeldInv
  <2>5. ended[v] \in Nat
    BY DEF LookupInv
  <2>6. ended[v] # 0 => clock <= ended[v] + l + MaxLatency + b
    BY <1>4, <2>2, <2>4, <2>5
  <2> QED
    BY <2>2, <2>3, <2>6
<1>6. Lookup!StalenessIsBounded'
    BY <1>1, <1>2, <1>3, <1>5 DEF Lookup!StalenessIsBounded
<1>7. HeldInv'
    BY <1>1, <1>5, <1>6 DEF HeldInv
<1> QED
    BY <1>1, <1>2, <1>7 DEF LookupInv

\* The consumer uses its cache, asks, and is answered.
LEMMA ConsumerKeeps ==
    ASSUME LookupInv, Lookup!Hit \/ Lookup!Ask \/ Lookup!Fill
    PROVE  LookupInv'
<1>1. /\ UNCHANGED kind /\ UNCHANGED clock /\ UNCHANGED source /\ UNCHANGED values
      /\ UNCHANGED change /\ UNCHANGED crossed /\ UNCHANGED ended
    BY DEF Lookup!Hit, Lookup!Ask, Lookup!Fill, Lookup!tables
<1>2. \A v : Lookup!Lifetime(v)' = Lookup!Lifetime(v)
    BY <1>1 DEF Lookup!Lifetime
<1>3. MaxLatency \in Nat /\ clock \in Nat /\ clock > 0
    BY AdminAssumption DEF LookupInv
<1>4. ASSUME Lookup!Hit PROVE LookupInv'
  <2>1. UNCHANGED cache /\ UNCHANGED query /\ clock < cache.exp
    BY <1>4 DEF Lookup!Hit
  <2>2. PICK v \in Lookup!Value, e \in Nat, l \in Nat :
           v = cache.val /\ e = cache.exp /\ l = Lookup!Lifetime(v)
    BY LifetimeIsNat DEF LookupInv
  <2>3. ended[v] \in Nat /\ (ended[v] # 0 => e <= ended[v] + l + MaxLatency)
    BY <2>2 DEF LookupInv
  <2>4. ended[v] # 0 => clock <= ended[v] + Lookup!Lifetime(v) + MaxLatency
    BY <1>3, <2>1, <2>2, <2>3
  <2>5. Lookup!Give(v)
    BY <1>4, <2>2 DEF Lookup!Hit
  <2>6. kind = "imei" /\ ~change /\ ~crossed => v \in {0, source}
    BY <2>2 DEF LookupInv
  <2>7. HeldInv'
    BY <1>1, <2>4, <2>5, <2>6, GiveKeeps
  <2> QED
    BY <1>1, <1>2, <2>1, <2>7 DEF LookupInv
<1>5. ASSUME Lookup!Ask PROVE LookupInv'
  <2>1. UNCHANGED cache /\ UNCHANGED held /\ used' = {}
    BY <1>5 DEF Lookup!Ask
  <2>2. PICK q : q = [val |-> source, at |-> clock]
    OBVIOUS
  <2>3. /\ query' = {q} /\ q.val = source /\ q.at = clock
        /\ q \in [val : Lookup!Value, at : Nat]
    BY <1>5, <2>2 DEF Lookup!Ask, LookupInv
  <2>4. \A x \in query' : /\ x.at <= clock' /\ clock' <= x.at + MaxLatency
                          /\ ended'[x.val] # 0 => x.at <= ended'[x.val]
    BY <1>1, <1>3, <2>3 DEF LookupInv
  <2>5. HeldInv'
    BY <1>1, <1>2, <2>1 DEF LookupInv, HeldInv, Lookup!StalenessIsBounded, Lookup!Hold
  <2>6. query' \subseteq [val : Lookup!Value, at : Nat]
    BY <2>3
  <2>7. kind' = "imei" /\ ~change' /\ ~crossed' =>
           /\ cache'.val \in {0, source'}
           /\ \A x \in query' : x.val \in {0, source'}
    BY <1>1, <2>1, <2>3 DEF LookupInv
  <2> QED
    BY <1>1, <1>2, <2>1, <2>4, <2>5, <2>6, <2>7 DEF LookupInv
<1>6. ASSUME Lookup!Fill PROVE LookupInv'
  <2>1. PICK q \in query :
           /\ cache' = [val |-> q.val, exp |-> clock + Lookup!Ttl(q.val)]
           /\ Lookup!Give(q.val)
    BY <1>6 DEF Lookup!Fill
  <2>2. query' = {}
    BY <1>6 DEF Lookup!Fill
  <2>3. PICK v \in Lookup!Value, a \in Nat, l \in Nat :
           v = q.val /\ a = q.at /\ l = Lookup!Lifetime(v)
    BY LifetimeIsNat DEF LookupInv
  <2>4. PICK e \in Nat : e = clock + l
    BY <1>3
  <2>5. cache' = [val |-> v, exp |-> e]
    BY <2>1, <2>3, <2>4, LifetimeIsNat
  <2>6. /\ a <= clock /\ clock <= a + MaxLatency
        /\ ended[v] # 0 => a <= ended[v]
        /\ ended[v] \in Nat
    BY <2>3 DEF LookupInv
  <2>7. ended[v] # 0 => clock <= ended[v] + Lookup!Lifetime(v) + MaxLatency
    BY <1>3, <2>3, <2>6
  <2>8. kind = "imei" /\ ~change /\ ~crossed => v \in {0, source}
    BY <2>3 DEF LookupInv
  <2>9. Lookup!Give(v)
    BY <2>1, <2>3
  <2>10. HeldInv'
    BY <1>1, <2>7, <2>8, <2>9, GiveKeeps
  <2>11. cache'.val = v /\ cache'.exp = e /\ cache' \in [val : Lookup!Value, exp : Nat]
    BY <2>5
  <2>12. ended[v] # 0 => e <= ended[v] + l + MaxLatency
    BY <1>3, <2>3, <2>4, <2>6
  <2>13. /\ cache'.exp <= clock' + Lookup!Lifetime(cache.val)'
         /\ ended'[cache'.val] # 0 =>
               cache'.exp <= ended'[cache'.val] + Lookup!Lifetime(cache.val)' + MaxLatency
    <3>1. Lookup!Lifetime(cache.val)' = l
      BY <1>1, <2>3, <2>11 DEF Lookup!Lifetime
    <3> QED
      BY <1>1, <1>3, <2>4, <2>11, <2>12, <3>1
  <2>14. kind' = "imei" /\ ~change' /\ ~crossed' => cache'.val \in {0, source'}
    BY <1>1, <2>3, <2>11 DEF LookupInv
  <2> QED
    BY <1>1, <2>2, <2>10, <2>11, <2>13, <2>14 DEF LookupInv
<1> QED
    BY <1>4, <1>5, <1>6

\* The clock ticks, but not past the end of a query or of a batch.
LEMMA ClockKeeps ==
    ASSUME LookupInv, Lookup!Tick
    PROVE  LookupInv'
<1>1. /\ UNCHANGED kind /\ UNCHANGED source /\ UNCHANGED values /\ UNCHANGED cache
      /\ UNCHANGED query /\ UNCHANGED held /\ used' = {}
      /\ UNCHANGED change /\ UNCHANGED crossed /\ UNCHANGED ended
      /\ clock' = clock + 1 /\ \A q \in query : clock - q.at < MaxLatency
      /\ \A h \in held : clock - h.at < Lookup!Hold
    BY DEF Lookup!Tick, Lookup!tables
<1>2. \A v : Lookup!Lifetime(v)' = Lookup!Lifetime(v)
    BY <1>1 DEF Lookup!Lifetime
<1>3. MaxLatency \in Nat /\ clock \in Nat /\ clock > 0
    BY AdminAssumption DEF LookupInv
<1>4. \A q \in query : q.at \in Nat /\ q.at <= clock' /\ clock' <= q.at + MaxLatency
  <2> SUFFICES ASSUME NEW q \in query
               PROVE  q.at \in Nat /\ q.at <= clock' /\ clock' <= q.at + MaxLatency
    OBVIOUS
  <2>1. q.at \in Nat /\ q.at <= clock /\ clock - q.at < MaxLatency
    BY <1>1 DEF LookupInv
  <2> QED
    BY <1>1, <1>3, <2>1
<1>5. \A v \in Lookup!Value : ended[v] <= clock'
    BY <1>1, <1>3 DEF LookupInv
<1>6. cache.exp <= clock' + Lookup!Lifetime(cache.val)
  <2>1. PICK e \in Nat, l \in Nat : e = cache.exp /\ l = Lookup!Lifetime(cache.val)
    BY LifetimeIsNat DEF LookupInv
  <2> QED
    BY <1>1, <1>3, <2>1 DEF LookupInv
<1>7. Lookup!Hold' = Lookup!Hold
    BY <1>1 DEF Lookup!Hold
<1>8. \A h \in held : h.at <= clock' /\ clock' <= h.at + Lookup!Hold
  <2> SUFFICES ASSUME NEW h \in held
               PROVE  h.at <= clock' /\ clock' <= h.at + Lookup!Hold
    OBVIOUS
  <2>1. PICK a \in Nat, b \in Nat : a = h.at /\ b = Lookup!Hold
    BY HoldIsNat DEF LookupInv, HeldInv
  <2>2. a <= clock /\ clock - a < b
    BY <1>1, <2>1 DEF LookupInv, HeldInv
  <2> QED
    BY <1>1, <1>3, <2>1, <2>2
<1>9. HeldInv'
    BY <1>1, <1>2, <1>7, <1>8 DEF LookupInv, HeldInv, Lookup!StalenessIsBounded
<1> QED
    BY <1>1, <1>2, <1>3, <1>4, <1>5, <1>6, <1>9 DEF LookupInv

\* The tables change: what was true till now ends now.
LEMMA BecomesKeeps ==
    ASSUME LookupInv, NEW v \in Lookup!Value, Lookup!Becomes(v),
           values' \in Lookup!Value, change' \in BOOLEAN,
           kind = "imei" /\ ~change' => source = 0 /\ ~change
    PROVE  LookupInv'
<1>1. /\ UNCHANGED kind /\ UNCHANGED clock /\ UNCHANGED cache /\ UNCHANGED query
      /\ UNCHANGED crossed /\ UNCHANGED held /\ used' = {}
      /\ source' = v /\ ended' = [ended EXCEPT ![source] = clock, ![v] = 0]
    BY DEF Lookup!Becomes
<1>2. \A x : Lookup!Lifetime(x)' = Lookup!Lifetime(x)
    BY <1>1 DEF Lookup!Lifetime
<1>3. MaxLatency \in Nat /\ clock \in Nat /\ clock > 0 /\ source \in Lookup!Value
    BY AdminAssumption DEF LookupInv
<1>4. /\ ended' \in [Lookup!Value -> Nat] /\ ended'[v] = 0
      /\ \A x \in Lookup!Value : ended'[x] \in {0, clock, ended[x]}
      /\ \A x \in Lookup!Value : ended'[x] # 0 => ended'[x] = clock \/ ended'[x] = ended[x]
    BY <1>1, <1>3 DEF LookupInv
<1>5. \A x \in Lookup!Value : ended'[x] <= clock'
    BY <1>1, <1>3, <1>4 DEF LookupInv
<1>6. ended'[cache'.val] # 0 =>
         cache'.exp <= ended'[cache'.val] + Lookup!Lifetime(cache.val)' + MaxLatency
  <2>1. PICK w \in Lookup!Value, e \in Nat, l \in Nat :
           w = cache.val /\ e = cache.exp /\ l = Lookup!Lifetime(w)
    BY LifetimeIsNat DEF LookupInv
  <2>2. e <= clock + l /\ (ended[w] # 0 => e <= ended[w] + l + MaxLatency)
    BY <2>1 DEF LookupInv
  <2>3. ended'[w] # 0 => e <= ended'[w] + l + MaxLatency
    BY <1>3, <1>4, <2>2
  <2> QED
    BY <1>1, <1>2, <2>1, <2>3
<1>7. \A q \in query : ended'[q.val] # 0 => q.at <= ended'[q.val]
  <2> SUFFICES ASSUME NEW q \in query, ended'[q.val] # 0 PROVE q.at <= ended'[q.val]
    OBVIOUS
  <2>1. q.val \in Lookup!Value /\ q.at <= clock /\ (ended[q.val] # 0 => q.at <= ended[q.val])
    BY DEF LookupInv
  <2> QED
    BY <1>4, <2>1
<1>8. \A h \in held : ended'[h.val] # 0 =>
         h.at <= ended'[h.val] + Lookup!Lifetime(h.val)' + MaxLatency
  <2> SUFFICES ASSUME NEW h \in held, ended'[h.val] # 0
               PROVE  h.at <= ended'[h.val] + Lookup!Lifetime(h.val)' + MaxLatency
    OBVIOUS
  <2>1. PICK w \in Lookup!Value, a \in Nat, l \in Nat :
           w = h.val /\ a = h.at /\ l = Lookup!Lifetime(w) /\ a <= clock
    BY LifetimeIsNat DEF LookupInv, HeldInv
  <2>2. ended[w] # 0 => a <= ended[w] + l + MaxLatency
    BY <2>1 DEF LookupInv, HeldInv
  <2>3. a <= ended'[w] + l + MaxLatency
    BY <1>3, <1>4, <2>1, <2>2
  <2> QED
    BY <1>2, <2>1, <2>3
<1>9. kind' = "imei" /\ ~change' /\ ~crossed' =>
         /\ cache'.val \in {0, source'}
         /\ \A q \in query' : q.val \in {0, source'}
    BY <1>1 DEF LookupInv
<1>10. kind' = "imei" /\ ~change' /\ ~crossed' =>
          \A h \in held' : h.val = source' \/ h.forgotten
    BY <1>1 DEF LookupInv, HeldInv
<1>11. HeldInv'
    BY <1>1, <1>8, <1>10 DEF LookupInv, HeldInv, Lookup!StalenessIsBounded, Lookup!Hold
<1> QED
    BY <1>1, <1>2, <1>3, <1>4, <1>5, <1>6, <1>7, <1>9, <1>11 DEF LookupInv

\* What is held is only marked.
LEMMA ForgottenKeeps ==
    ASSUME LookupInv, Lookup!Forgotten,
           UNCHANGED <<kind, clock, source, ended>>
    PROVE  HeldInv'
<1>1. held' = {[h EXCEPT !.forgotten = TRUE] : h \in held} /\ used' = {}
    BY DEF Lookup!Forgotten
<1>2. \A x : Lookup!Lifetime(x)' = Lookup!Lifetime(x)
    BY DEF Lookup!Lifetime
<1>3. Lookup!Hold' = Lookup!Hold
    BY DEF Lookup!Hold
<1>4. ASSUME NEW g \in held'
      PROVE  /\ g \in [val : Lookup!Value, at : Nat, forgotten : BOOLEAN]
             /\ g.forgotten
             /\ \E h \in held : g.val = h.val /\ g.at = h.at
  <2>1. PICK h \in held : g = [h EXCEPT !.forgotten = TRUE]
    BY <1>1
  <2>2. h \in [val : Lookup!Value, at : Nat, forgotten : BOOLEAN]
    BY DEF LookupInv, HeldInv
  <2> QED
    BY <2>1, <2>2
<1>5. ASSUME NEW g \in held'
      PROVE  /\ g.at <= clock' /\ clock' <= g.at + Lookup!Hold'
             /\ ended'[g.val] # 0 =>
                   g.at <= ended'[g.val] + Lookup!Lifetime(g.val)' + MaxLatency
             /\ kind' = "imei" => g.val # 0
  <2>1. PICK h \in held : g.val = h.val /\ g.at = h.at
    BY <1>4
  <2> QED
    BY <1>2, <1>3, <2>1 DEF LookupInv, HeldInv
<1>6. Lookup!StalenessIsBounded'
    BY <1>1 DEF Lookup!StalenessIsBounded
<1> QED
    BY <1>1, <1>4, <1>5, <1>6 DEF HeldInv

\* forgetImei empties the cache, for good unless a query is under way; in another
\* process it leaves this one as it is.
LEMMA ForgetKeeps ==
    ASSUME LookupInv, Lookup!ForgetImei \/ Lookup!ForgetElsewhere
    PROVE  LookupInv'
<1>1. /\ UNCHANGED kind /\ UNCHANGED clock /\ UNCHANGED source /\ UNCHANGED values
      /\ UNCHANGED query /\ UNCHANGED ended
      /\ change' = FALSE /\ Lookup!Forgotten
    BY DEF Lookup!ForgetImei, Lookup!ForgetElsewhere
<1>2. \A x : Lookup!Lifetime(x)' = Lookup!Lifetime(x)
    BY <1>1 DEF Lookup!Lifetime
<1>3. HeldInv'
    BY <1>1, ForgottenKeeps
<1>4. CASE Lookup!ForgetElsewhere
  <2>1. UNCHANGED cache /\ crossed' = TRUE
    BY <1>4 DEF Lookup!ForgetElsewhere
  <2> QED
    BY <1>1, <1>2, <1>3, <2>1 DEF LookupInv
<1>5. CASE Lookup!ForgetImei
  <2>1. cache' = [val |-> 0, exp |-> 0] /\ crossed' = (query # {})
    BY <1>5 DEF Lookup!ForgetImei
  <2>2. MaxLatency \in Nat /\ clock \in Nat /\ 0 \in Lookup!Value /\ ended[0] \in Nat
    BY AdminAssumption DEF LookupInv, Lookup!Value
  <2>3. cache' \in [val : Lookup!Value, exp : Nat] /\ cache'.val = 0 /\ cache'.exp = 0
    BY <2>1, <2>2
  <2>4. /\ cache'.exp <= clock' + Lookup!Lifetime(cache.val)'
        /\ ended'[cache'.val] # 0 =>
              cache'.exp <= ended'[cache'.val] + Lookup!Lifetime(cache.val)' + MaxLatency
    <3>1. PICK l \in Nat : l = Lookup!Lifetime(0)
      BY LifetimeIsNat
    <3>2. Lookup!Lifetime(cache.val)' = l
      BY <1>1, <2>3, <3>1 DEF Lookup!Lifetime
    <3> QED
      BY <1>1, <2>2, <2>3, <3>2
  <2>5. kind' = "imei" /\ ~change' /\ ~crossed' =>
           /\ cache'.val \in {0, source'}
           /\ \A q \in query' : q.val \in {0, source'}
    BY <1>1, <2>1, <2>3
  <2>6. crossed' \in BOOLEAN
    BY <2>1
  <2> QED
    BY <1>1, <1>3, <2>3, <2>4, <2>5, <2>6 DEF LookupInv
<1> QED
    BY <1>4, <1>5

\* The inductive invariant of the consumer's caches.
LEMMA LookupInvariant ==
    /\ Lookup!Init => LookupInv
    /\ LookupInv /\ [Lookup!Next]_(Lookup!vars) => LookupInv'
<1>1. ASSUME Lookup!Init PROVE LookupInv
  <2>1. /\ clock = 1 /\ source = 0 /\ values = 0 /\ cache = [val |-> 0, exp |-> 0]
        /\ query = {} /\ held = {} /\ used = {} /\ change = FALSE /\ crossed = FALSE
        /\ ended = [v \in Lookup!Value |-> 0]
    BY <1>1 DEF Lookup!Init
  <2>2. 0 \in Lookup!Value
    BY AdminAssumption DEF Lookup!Value
  <2>3. cache \in [val : Lookup!Value, exp : Nat] /\ cache.val = 0 /\ cache.exp = 0
    BY <2>1, <2>2
  <2>4. PICK l \in Nat : l = Lookup!Lifetime(0)
    BY LifetimeIsNat
  <2>5. cache.exp <= clock + Lookup!Lifetime(cache.val)
    BY <2>1, <2>3, <2>4
  <2>6. ended \in [Lookup!Value -> Nat] /\ \A v \in Lookup!Value : ended[v] = 0
    BY <2>1
  <2>7. ended[source] = 0 /\ ended[cache.val] = 0 /\ \A v \in Lookup!Value : ended[v] <= clock
    BY <2>1, <2>2, <2>3, <2>6
  <2>8. query \subseteq [val : Lookup!Value, at : Nat] /\ HeldInv
    BY <2>1 DEF HeldInv, Lookup!StalenessIsBounded
  <2>9. /\ cache.val \in {0, source} /\ \A q \in query : FALSE
    BY <2>1, <2>3
  <2>10. change \in BOOLEAN /\ crossed \in BOOLEAN
    BY <2>1, Zenon
  <2>11. /\ clock \in Nat /\ clock > 0
         /\ source \in Lookup!Value /\ values \in Lookup!Value
    BY <2>1, <2>2
  <2>12. cache \in [val : Lookup!Value, exp : Nat] /\ ended \in [Lookup!Value -> Nat]
    BY <2>3, <2>6
  <2> QED
    BY <2>5, <2>7, <2>8, <2>9, <2>10, <2>11, <2>12 DEF LookupInv
<1>2. ASSUME LookupInv, UNCHANGED Lookup!vars PROVE LookupInv'
    BY <1>2 DEF Lookup!vars, LookupInv, HeldInv, Lookup!StalenessIsBounded, Lookup!Lifetime, Lookup!Hold
<1>3. ASSUME LookupInv, Lookup!Next PROVE LookupInv'
  <2>1. MaxValue \in Nat /\ values \in Lookup!Value /\ 0 \in Lookup!Value
    BY <1>3, AdminAssumption DEF LookupInv, Lookup!Value
  <2>2. values < MaxValue => values + 1 \in Lookup!Value
    BY <2>1 DEF Lookup!Value
  <2>3. 1..values \subseteq Lookup!Value
    BY <2>1 DEF Lookup!Value
  <2>4. CASE Lookup!Provision \/ Lookup!Edit
    <3>1. /\ values < MaxValue /\ values' = values + 1 /\ Lookup!Becomes(values + 1)
          /\ UNCHANGED change /\ (kind = "imei" => source = 0 /\ ~change)
      BY <2>4 DEF Lookup!Provision, Lookup!Edit
    <3>2. change' \in BOOLEAN
      BY <1>3, <3>1 DEF LookupInv
    <3> QED
      BY <1>3, <2>2, <3>1, <3>2, BecomesKeeps
  <2>5. CASE Lookup!Remove \/ Lookup!Restore
    <3>1. PICK v \in {0} \cup 1..values : Lookup!Becomes(v) /\ change' = TRUE /\ UNCHANGED values
      BY <2>5 DEF Lookup!Remove, Lookup!Restore
    <3> QED
      BY <1>3, <2>1, <2>3, <3>1, BecomesKeeps
  <2> QED
    BY <1>3, <2>4, <2>5, ConsumerKeeps, BatchKeeps, ClockKeeps, ForgetKeeps DEF Lookup!Next
<1> QED
    BY <1>1, <1>2, <1>3

\* For any rows, changes, lifetimes, latencies and batches: no message is handled
\* with what stopped being true longer ago than a cache lives, a query takes and a
\* batch lasts; and once forgetImei has run here with no query under way, a position
\* is inserted for the row that is gone only if its message had got the row before.
THEOREM ConsumerForgets == Lookup!Spec => CachesForget
<1>1. LookupInv => Lookup!StalenessIsBounded
    BY DEF LookupInv, HeldInv
<1>2. LookupInv /\ [Lookup!Next]_(Lookup!vars)
         => [Lookup!Insert /\ kind = "imei" =>
                change \/ crossed \/ \A h \in held : h.val = source \/ h.forgotten
            ]_(Lookup!vars)
    BY DEF LookupInv, HeldInv
<1> QED
  BY <1>1, <1>2, LookupInvariant, PTL
     DEF Lookup!Spec, CachesForget, Lookup!ForgottenUnlessCrossed

(***************************************************************************)
(* Notification settings.                                                  *)
(***************************************************************************)
Updating(c) == put[c] # Notify!NoPut

\* As long as updates come one after the other, the one under way has read the
\* settings there still are, and its patch leaves the secret alone.
NotifyInv ==
    /\ crossing \in BOOLEAN
    /\ ~crossing =>
          /\ "secret" \in DOMAIN config
          /\ put = [c \in Two |-> put[c]]
          /\ \A c \in Two : Updating(c) => /\ put[c].read = config
                                           /\ "secret" \notin DOMAIN put[c].patch
          /\ \A c, d \in Two : Updating(c) /\ Updating(d) => c = d

\* No caller can name the secret.
LEMMA PatchesLeaveTheSecret ==
    ASSUME NEW p \in Notify!Patches
    PROVE  "secret" \notin DOMAIN p
<1>1. CASE p \in {[urls |-> us] : us \in SUBSET One}
  <2>1. PICK us : p = [urls |-> us]
    BY <1>1
  <2> QED
    BY <2>1
<1>2. CASE p \in {[mail |-> b] : b \in BOOLEAN}
  <2>1. PICK b : p = [mail |-> b]
    BY <1>2
  <2> QED
    BY <2>1
<1>3. CASE p \in {[wanted |-> b] : b \in BOOLEAN}
  <2>1. PICK b : p = [wanted |-> b]
    BY <1>3
  <2> QED
    BY <2>1
<1> QED
    BY <1>1, <1>2, <1>3 DEF Notify!Patches

\* An update that nobody overlaps keeps the secret there is.
LEMMA SetKeepsTheSecret ==
    ASSUME NotifyInv, ~crossing, NEW c \in Two, Notify!Set(c)
    PROVE  /\ "secret" \in DOMAIN config'
           /\ config.secret # 0 => config'.secret = config.secret
<1>1. PICK m : m = Notify!Merge(put[c].read, put[c].patch)
    OBVIOUS
<1>2. /\ put[c].read = config /\ "secret" \notin DOMAIN put[c].patch
      /\ "secret" \in DOMAIN config
    BY DEF NotifyInv, Updating, Notify!Set
<1>3. "secret" \in DOMAIN m /\ m.secret = config.secret
    BY <1>1, <1>2 DEF Notify!Merge
<1>4. IF Notify!NeedsSecret(m) THEN config' = [m EXCEPT !.secret = keys + 1]
                               ELSE config' = m
    BY <1>1 DEF Notify!Set
<1>5. config.secret # 0 => ~Notify!NeedsSecret(m)
    BY <1>3 DEF Notify!NeedsSecret
<1>6. CASE Notify!NeedsSecret(m)
    BY <1>3, <1>4, <1>5, <1>6
<1>7. CASE ~Notify!NeedsSecret(m)
    BY <1>3, <1>4, <1>7
<1> QED
    BY <1>6, <1>7

\* The inductive invariant of the settings.
LEMMA NotifyInvariant ==
    /\ Notify!Init => NotifyInv
    /\ NotifyInv /\ [Notify!Next]_(Notify!vars) => NotifyInv'
<1>1. ASSUME Notify!Init PROVE NotifyInv
  <2>1. /\ crossing = FALSE /\ put = [c \in Two |-> Notify!NoPut]
        /\ config = [urls |-> {}, mail |-> FALSE, wanted |-> TRUE, secret |-> 0]
    BY <1>1 DEF Notify!Init
  <2>2. "secret" \in DOMAIN config
    BY <2>1
  <2>3. put = [c \in Two |-> put[c]] /\ \A c \in Two : ~Updating(c)
    BY <2>1 DEF Updating
  <2>4. crossing \in BOOLEAN
    BY <2>1, Zenon
  <2> QED
    BY <2>2, <2>3, <2>4 DEF NotifyInv
<1>2. ASSUME NotifyInv, UNCHANGED <<config, put, crossing>> PROVE NotifyInv'
    BY <1>2 DEF NotifyInv, Updating
<1>3. ASSUME NotifyInv, NEW c \in Two, NEW p \in Notify!Patches, Notify!Get(c, p)
      PROVE  NotifyInv'
  <2>1. PICK r : r = [step |-> "set", read |-> config, patch |-> p]
    OBVIOUS
  <2>2. r.read = config /\ r.patch = p /\ r.step = "set"
    BY <2>1
  <2>3. /\ put' = [put EXCEPT ![c] = r] /\ UNCHANGED config
        /\ crossing' = (crossing \/ \E d \in Two : Updating(d))
    BY <1>3, <2>1 DEF Notify!Get, Updating
  <2>4. crossing' \in BOOLEAN
    BY <2>3, Zenon
  <2>5. ASSUME ~crossing'
        PROVE  /\ "secret" \in DOMAIN config'
               /\ put' = [d \in Two |-> put'[d]]
               /\ \A d \in Two : Updating(d)' => /\ put'[d].read = config'
                                                 /\ "secret" \notin DOMAIN put'[d].patch
               /\ \A d, e \in Two : Updating(d)' /\ Updating(e)' => d = e
    <3>1. ~crossing /\ \A d \in Two : ~Updating(d)
      BY <2>3, <2>5
    <3>2. put = [d \in Two |-> put[d]] /\ "secret" \in DOMAIN config
      BY <1>3, <3>1 DEF NotifyInv
    <3>3. put' = [d \in Two |-> put'[d]] /\ put'[c] = r
          /\ \A d \in Two : d # c => put'[d] = put[d]
      BY <2>3, <3>2
    <3>4. \A d \in Two : Updating(d)' => d = c
      BY <3>1, <3>3 DEF Updating
    <3> QED
      BY <2>2, <2>3, <3>2, <3>3, <3>4, PatchesLeaveTheSecret
  <2> QED
    BY <2>4, <2>5 DEF NotifyInv
<1>4. ASSUME NotifyInv, NEW c \in Two, Notify!Set(c) PROVE NotifyInv'
  <2>1. Updating(c) /\ put' = [put EXCEPT ![c] = Notify!NoPut] /\ UNCHANGED crossing
    BY <1>4 DEF Notify!Set, Updating
  <2>2. ASSUME ~crossing
        PROVE  /\ "secret" \in DOMAIN config'
               /\ put' = [d \in Two |-> put'[d]]
               /\ \A d \in Two : ~Updating(d)'
    <3>1. put = [d \in Two |-> put[d]] /\ \A d \in Two : Updating(d) => d = c
      BY <1>4, <2>1, <2>2 DEF NotifyInv
    <3>2. put' = [d \in Two |-> put'[d]] /\ put'[c] = Notify!NoPut
          /\ \A d \in Two : d # c => put'[d] = put[d]
      BY <2>1, <3>1
    <3> QED
      BY <1>4, <2>2, <3>1, <3>2, SetKeepsTheSecret DEF Updating
  <2> QED
    BY <1>4, <2>1, <2>2 DEF NotifyInv
<1> QED
  <2>1. ASSUME NotifyInv, [Notify!Next]_(Notify!vars) PROVE NotifyInv'
    <3>1. CASE UNCHANGED <<config, put, crossing>>
      BY <1>2, <2>1, <3>1
    <3>2. CASE \E c \in Two : Notify!Set(c) \/ \E p \in Notify!Patches : Notify!Get(c, p)
      BY <1>3, <1>4, <2>1, <3>2
    <3> QED
      BY <2>1, <3>1, <3>2 DEF Notify!Next, Notify!vars, Notify!Dispatch, Notify!Post,
         Notify!Mail, Notify!Settle
  <2> QED
    BY <1>1, <2>1

\* For any callers, webhooks, patches and secrets: a signing secret that receivers may
\* have learnt is never replaced unless two updates of the settings have overlapped.
THEOREM SecretsStay == Notify!Spec => SecretIsStable
<1>1. ASSUME NotifyInv, [Notify!Next]_(Notify!vars), config.secret # 0, ~crossing
      PROVE  config'.secret = config.secret
  <2>1. CASE UNCHANGED config
    BY <2>1
  <2>2. CASE \E c \in Two : Notify!Set(c)
    BY <1>1, <2>2, SetKeepsTheSecret
  <2> QED
    BY <1>1, <2>1, <2>2 DEF Notify!Next, Notify!vars, Notify!Get, Notify!Dispatch,
       Notify!Post, Notify!Mail, Notify!Settle
<1>2. NotifyInv /\ [Notify!Next]_(Notify!vars)
        => [config.secret # 0 => config'.secret = config.secret \/ crossing]_(Notify!vars)
    BY <1>1
<1> QED
  BY <1>2, NotifyInvariant, PTL DEF Notify!Spec, SecretIsStable, Notify!SecretIsStable

(***************************************************************************)
(* Groups.                                                                 *)
(***************************************************************************)
\* A group there is, or has been.
Seen(u) == u \in Rows /\ parent[u] # "free"

\* Moves one after the other keep a forest; and the one that has walked up from its new
\* parent may still go there, whatever was created or removed since.
GroupsForm ==
    /\ Groups!Forest /\ ~hung
    /\ \A r, s \in Two : Groups!Moving(r) /\ Groups!Moving(s) => r = s
    /\ \A r \in Two : move[r].step = "write" => move[r].unit \notin Groups!Chain(move[r].to)

GroupsInv ==
    /\ parent \in [Rows -> Rows \cup {"free", "gone", None}]
    /\ move \in [Two -> [step : {"idle", "unit", "parent", "walk", "write", "insert"},
                         unit : Rows \cup {None}, to : Rows \cup {None}]]
    /\ overlap \in BOOLEAN
    /\ \A u \in Groups!Ids : parent[u] \in Groups!Ids \cup {None}
    /\ \A r \in Two : Groups!Moving(r) =>
         Seen(move[r].unit) /\ (move[r].to = None \/ Seen(move[r].to))
    /\ overlap \/ GroupsForm

\* The groups above u are the least set that rises from u.
LEMMA ChainRises ==
    ASSUME NEW u \in Groups!Ids
    PROVE  u \in Groups!Chain(u) /\ Groups!Rising(Groups!Chain(u))
BY DEF Groups!Chain, Groups!Rising

LEMMA ChainIsWithin ==
    ASSUME NEW u, NEW S \in SUBSET Groups!Ids, u \in S, Groups!Rising(S)
    PROVE  Groups!Chain(u) \subseteq S
BY DEF Groups!Chain

LEMMA NextChainIsWithin ==
    ASSUME NEW u, NEW S \in SUBSET (Groups!Ids)', u \in S,
           \A v \in S : parent'[v] \in (Groups!Ids)' => parent'[v] \in S
    PROVE  Groups!Chain(u)' \subseteq S
BY DEF Groups!Chain, Groups!Rising

\* What is above the group above u is above u.
LEMMA ChainGrows ==
    ASSUME NEW u \in Groups!Ids, NEW v \in Groups!Chain(u), parent[v] \in Groups!Ids
    PROVE  Groups!Chain(parent[v]) \subseteq Groups!Chain(u)
<1>1. Groups!Chain(u) \in SUBSET Groups!Ids /\ parent[v] \in Groups!Chain(u)
    BY ChainRises DEF Groups!Chain, Groups!Rising
<1> QED
    BY <1>1, ChainRises, ChainIsWithin

\* Where no group changes its parent, nor the group above it comes back, the groups
\* above a group become fewer at most.
LEMMA ChainShrinks ==
    ASSUME NEW u,
           \A v \in Groups!Ids \cap (Groups!Ids)' :
             /\ parent'[v] = parent[v]
             /\ parent[v] \in (Groups!Ids)' => parent[v] \in Groups!Ids
    PROVE  u \in Groups!Ids => Groups!Chain(u)' \subseteq Groups!Chain(u)
<1> SUFFICES ASSUME u \in Groups!Ids, u \in (Groups!Ids)'
             PROVE  Groups!Chain(u)' \subseteq Groups!Chain(u)
    BY DEF Groups!Chain
<1> DEFINE S == Groups!Chain(u) \cap (Groups!Ids)'
<1>1. Groups!Chain(u) \subseteq Groups!Ids
    BY DEF Groups!Chain
<1>2. PICK T : T = S
    OBVIOUS
<1>3. T \in SUBSET (Groups!Ids)' /\ u \in T
    BY <1>2, ChainRises
<1>4. \A v \in T : parent'[v] \in (Groups!Ids)' => parent'[v] \in T
    BY <1>1, <1>2, ChainRises DEF Groups!Rising
<1>5. Groups!Chain(u)' \subseteq T
    BY <1>3, <1>4, NextChainIsWithin
<1> QED
    BY <1>2, <1>5

MoveRequests == [step : {"idle", "unit", "parent", "walk", "write", "insert"},
                 unit : Rows \cup {None}, to : Rows \cup {None}]

\* Groups that come as leaves, and groups that go with all below them.
LEMMA TreeKeeps ==
    ASSUME GroupsInv, overlap' = overlap, hung' = hung,
           parent' \in [Rows -> Rows \cup {"free", "gone", None}],
           move' \in [Two -> MoveRequests],
           \A r \in Two : Groups!Moving(r)' => move'[r] = move[r],
           \A u \in (Groups!Ids)' : parent'[u] \in (Groups!Ids)' \cup {None},
           \A u \in Rows : Seen(u) => Seen(u)',
           \A u \in (Groups!Ids)' : u \in Groups!Ids => parent'[u] = parent[u],
           \A u \in (Groups!Ids)' : u \notin Groups!Ids =>
             parent[u] = "free" /\ parent'[u] \in Groups!Ids \cup {None}
    PROVE  GroupsInv'
<1>1. None \notin Rows /\ None \notin Groups!Ids /\ None \notin (Groups!Ids)'
      /\ Groups!Ids \subseteq Rows /\ (Groups!Ids)' \subseteq Rows
    BY RegistryAssumption DEF Groups!Ids
<1>2. \A r \in Two : Groups!Moving(r)' => Groups!Moving(r) /\ move'[r] = move[r]
    BY DEF Groups!Moving
<1>3. \A r \in Two : Groups!Moving(r)' =>
        Seen(move[r].unit)' /\ (move'[r].to = None \/ Seen(move[r].to)')
    BY <1>2 DEF GroupsInv, Seen
<1>4. ASSUME NEW u \in Groups!Ids PROVE Groups!Chain(u)' \subseteq Groups!Chain(u)
    BY <1>1, <1>4, ChainShrinks DEF GroupsInv
<1>5. ASSUME NEW u, u \notin (Groups!Ids)' PROVE Groups!Chain(u)' = {}
    BY <1>5 DEF Groups!Chain
<1>6. ASSUME GroupsForm PROVE GroupsForm'
  <2>1. ASSUME NEW u \in (Groups!Ids)' PROVE ~Groups!OnCycle(u)'
    <3>1. PICK p : p = parent'[u]
      OBVIOUS
    <3>2. p \in Groups!Ids \cup {None}
      BY <2>1, <3>1 DEF GroupsInv
    <3>3. CASE p = None
      BY <1>1, <1>5, <3>1, <3>3 DEF Groups!OnCycle
    <3>4. CASE p \in Groups!Ids
      <4>1. u \notin Groups!Chain(p)
        BY <1>6, <2>1, <3>1 DEF GroupsForm, Groups!Forest, Groups!OnCycle, Groups!Chain
      <4> QED
        BY <1>4, <3>1, <3>4, <4>1 DEF Groups!OnCycle
    <3> QED
      BY <3>2, <3>3, <3>4
  <2>2. ASSUME NEW r \in Two, move'[r].step = "write"
        PROVE  move'[r].unit \notin Groups!Chain(move[r].to)'
    <3>1. PICK v, w : v = move'[r].unit /\ w = move'[r].to
      OBVIOUS
    <3>2. /\ move'[r] = move[r] /\ v \notin Groups!Chain(w)
          /\ w = None \/ Seen(w)
      BY <1>2, <1>6, <2>2, <3>1 DEF GroupsForm, GroupsInv, Groups!Moving
    <3>3. CASE w \in Groups!Ids
      BY <1>4, <3>1, <3>2, <3>3
    <3>4. CASE w \notin Groups!Ids
      <4>1. w \notin (Groups!Ids)'
        BY <1>1, <3>2, <3>4 DEF Seen
      <4> QED
        BY <1>5, <3>1, <4>1
    <3> QED
      BY <3>3, <3>4
  <2>3. \A r, s \in Two : Groups!Moving(r)' /\ Groups!Moving(s)' => r = s
    BY <1>2, <1>6 DEF GroupsForm
  <2>4. (Groups!Forest)' /\ ~hung'
    BY <1>6, <2>1 DEF GroupsForm, Groups!Forest
  <2> QED
    BY <2>2, <2>3, <2>4 DEF GroupsForm
<1> QED
    BY <1>3, <1>6 DEF GroupsInv, MoveRequests

\* A request that goes on, or begins, while the groups stay as they are.
LEMMA RequestKeeps ==
    ASSUME GroupsInv, parent' = parent, NEW r \in Two, NEW x \in MoveRequests,
           move' = [move EXCEPT ![r] = x], overlap' \in BOOLEAN, overlap => overlap',
           x.step \in {"unit", "parent", "walk", "write"} =>
             /\ Seen(x.unit) /\ (x.to = None \/ Seen(x.to))
             /\ overlap' \/ Groups!Moving(r) \/ \A q \in Two : ~Groups!Moving(q),
           x.step = "write" /\ GroupsForm => x.unit \notin Groups!Chain(x.to),
           GroupsForm => ~hung'
    PROVE  GroupsInv'
<1>1. /\ move \in [Two -> MoveRequests] /\ move' \in [Two -> MoveRequests] /\ move'[r] = x
      /\ \A q \in Two : q # r => move'[q] = move[q]
    BY DEF GroupsInv, MoveRequests
<1>2. /\ (Groups!Ids)' = Groups!Ids /\ \A u : Seen(u)' <=> Seen(u)
      /\ \A u : Groups!Chain(u)' = Groups!Chain(u)
    BY DEF Groups!Ids, Seen, Groups!Chain, Groups!Rising
<1>3. /\ Groups!Moving(r)' <=> x.step \in {"unit", "parent", "walk", "write"}
      /\ \A q \in Two : q # r => (Groups!Moving(q)' <=> Groups!Moving(q))
    BY <1>1 DEF Groups!Moving
<1>4. \A q \in Two : Groups!Moving(q)' =>
        Seen(move[q].unit)' /\ (move'[q].to = None \/ Seen(move[q].to)')
    BY <1>1, <1>2, <1>3 DEF GroupsInv
<1>5. ASSUME GroupsForm, ~overlap' PROVE GroupsForm'
  <2>1. (Groups!Forest)' /\ ~hung'
    BY <1>2, <1>5 DEF GroupsForm, Groups!Forest, Groups!OnCycle
  <2>2. \A p, q \in Two : Groups!Moving(p)' /\ Groups!Moving(q)' => p = q
    BY <1>3, <1>5 DEF GroupsForm
  <2>3. ASSUME NEW q \in Two, move'[q].step = "write"
        PROVE  move'[q].unit \notin Groups!Chain(move[q].to)'
    BY <1>1, <1>2, <1>5, <2>3 DEF GroupsForm
  <2> QED
    BY <2>1, <2>2, <2>3 DEF GroupsForm
<1> QED
    BY <1>1, <1>2, <1>4, <1>5 DEF GroupsInv, MoveRequests

\* The move that has walked up from its new parent makes no cycle.
LEMMA WriteKeeps ==
    ASSUME GroupsInv, NEW r \in Two, Groups!Write(r)
    PROVE  GroupsInv'
<1>1. PICK u, w : u = move[r].unit /\ w = move[r].to
    OBVIOUS
<1>2. /\ move' = [move EXCEPT ![r] = Groups!Idle] /\ UNCHANGED <<made, hung, overlap>>
      /\ Groups!Idle \in MoveRequests /\ Groups!Idle.step = "idle"
      /\ move \in [Two -> MoveRequests] /\ Groups!Moving(r)
    BY DEF Groups!Write, Groups!Ends, Groups!Idle, Groups!Moving, MoveRequests, GroupsInv
<1>3. /\ move' \in [Two -> MoveRequests] /\ \A q \in Two : Groups!Moving(q)' => move'[q] = move[q]
      /\ None \notin Rows /\ Groups!Ids \subseteq Rows
    BY <1>2, RegistryAssumption DEF Groups!Moving, Groups!Ids
<1>4. CASE parent' = parent
  <2>1. \A q \in Rows : Seen(q) => Seen(q)'
    BY <1>4 DEF Seen
  <2> QED
    BY <1>2, <1>3, <1>4, <2>1, TreeKeeps DEF GroupsInv, Groups!Ids
<1>5. CASE u \in Groups!Ids /\ w \in Groups!Ids \cup {None} /\ parent' = [parent EXCEPT ![u] = w]
  <2>1. /\ parent' \in [Rows -> Rows \cup {"free", "gone", None}]
        /\ parent'[u] = w /\ \A v \in Rows : v # u => parent'[v] = parent[v]
    BY <1>3, <1>5 DEF GroupsInv
  <2>2. (Groups!Ids)' = Groups!Ids
    BY <1>3, <1>5, <2>1, RegistryAssumption, AdminAssumption DEF Groups!Ids
  <2>3. \A v \in Rows : Seen(v) => Seen(v)'
    BY <1>3, <1>5, <2>1, AdminAssumption, RegistryAssumption DEF Seen, Groups!Ids
  <2>4. \A v \in (Groups!Ids)' : parent'[v] \in (Groups!Ids)' \cup {None}
    BY <1>3, <1>5, <2>1, <2>2 DEF GroupsInv
  <2>5. \A q \in Two : Groups!Moving(q)' =>
          Seen(move[q].unit)' /\ (move'[q].to = None \/ Seen(move[q].to)')
    BY <1>3, <2>3 DEF GroupsInv, Groups!Moving, Seen
  <2>6. ASSUME GroupsForm PROVE GroupsForm'
    <3>1. u \notin Groups!Chain(w)
      BY <1>1, <1>2, <2>6 DEF GroupsForm, Groups!Write
    \* The groups above w, and any others u is not below, are who they were.
    <3>2. ASSUME NEW v \in Groups!Ids, u \notin Groups!Chain(v)
          PROVE  Groups!Chain(v)' \subseteq Groups!Chain(v)
      <4>1. PICK S \in SUBSET (Groups!Ids)' : S = Groups!Chain(v)
        BY <2>2 DEF Groups!Chain
      <4>2. v \in S /\ \A x \in S : parent'[x] \in (Groups!Ids)' => parent'[x] \in S
        BY <1>3, <2>1, <2>2, <3>2, <4>1, ChainRises DEF Groups!Rising
      <4> QED
        BY <4>1, <4>2, NextChainIsWithin
    <3>3. Groups!Chain(w)' \subseteq Groups!Chain(w)
      BY <1>3, <1>5, <2>2, <3>1, <3>2 DEF Groups!Chain
    <3>4. ASSUME NEW v \in Groups!Ids PROVE ~Groups!OnCycle(v)'
      <4>1. PICK p : p = parent'[v]
        OBVIOUS
      <4>2. CASE v = u
        BY <2>1, <3>1, <3>3, <4>2 DEF Groups!OnCycle
      <4>3. CASE v # u /\ p \notin Groups!Ids
        BY <2>2, <4>1, <4>3 DEF Groups!OnCycle, Groups!Chain
      <4>4. CASE v # u /\ p \in Groups!Ids
        <5>1. p = parent[v] /\ v \notin Groups!Chain(p)
          BY <1>3, <2>1, <2>6, <3>4, <4>1, <4>4 DEF GroupsForm, Groups!Forest, Groups!OnCycle
        <5>2. CASE u \notin Groups!Chain(p)
          BY <3>2, <4>1, <4>4, <5>1, <5>2 DEF Groups!OnCycle
        <5>3. CASE u \in Groups!Chain(p)
          <6>1. PICK S : S = Groups!Chain(p) \cup Groups!Chain(w)
            OBVIOUS
          <6>2. S \in SUBSET (Groups!Ids)' /\ p \in S
            BY <2>2, <4>4, <6>1, ChainRises DEF Groups!Chain
          <6>3. ASSUME NEW x \in S, parent'[x] \in (Groups!Ids)' PROVE parent'[x] \in S
            <7>1. CASE x = u
              BY <2>1, <2>2, <6>1, <6>3, <7>1, ChainRises
            <7>2. CASE x # u /\ x \in Groups!Chain(p)
              BY <1>3, <2>1, <2>2, <4>4, <6>1, <6>3, <7>2, ChainRises DEF Groups!Rising, Groups!Chain
            <7>3. CASE x # u /\ x \in Groups!Chain(w)
              BY <1>3, <2>1, <2>2, <6>1, <6>3, <7>3, ChainRises DEF Groups!Rising, Groups!Chain
            <7> QED
              BY <6>1, <7>1, <7>2, <7>3
          <6>4. Groups!Chain(p)' \subseteq S
            BY <6>2, <6>3, NextChainIsWithin
          \* Were v below w, what is above v would be above w, u as well.
          <6>5. v \notin Groups!Chain(w)
            <7> SUFFICES ASSUME v \in Groups!Chain(w) PROVE FALSE
              OBVIOUS
            <7>1. w \in Groups!Ids
              BY DEF Groups!Chain
            <7>2. Groups!Chain(p) \subseteq Groups!Chain(w)
              BY <4>4, <5>1, <7>1, ChainGrows
            <7> QED
              BY <3>1, <5>3, <7>2
          <6> QED
            BY <4>1, <5>1, <6>1, <6>4, <6>5 DEF Groups!OnCycle
        <5> QED
          BY <5>2, <5>3
      <4> QED
        BY <4>2, <4>3, <4>4
    <3>5. \A q \in Two : ~Groups!Moving(q)'
      BY <1>2, <1>3, <2>6 DEF GroupsForm, Groups!Moving
    <3>6. (Groups!Forest)' /\ ~hung'
      BY <1>2, <2>2, <2>6, <3>4 DEF GroupsForm, Groups!Forest
    <3> QED
      BY <3>5, <3>6 DEF GroupsForm, Groups!Moving
  <2> QED
    BY <1>2, <1>3, <2>1, <2>4, <2>5, <2>6 DEF GroupsInv, MoveRequests
<1> QED
    BY <1>1, <1>4, <1>5 DEF Groups!Write

\* A request begins: it names groups there are, or one there will be.
LEMMA BeginKeeps ==
    ASSUME GroupsInv, NEW r \in Two, NEW u \in Rows, NEW to \in Rows \cup {None},
           Groups!Create(r, u, to) \/ Groups!Move(r, u, to)
    PROVE  GroupsInv'
<1>1. PICK step \in {"insert", "unit"} :
        /\ Groups!Begin(r, u, to, step)
        /\ step = "unit" => u \in Groups!Ids /\ to \in Groups!Ids \cup {None}
    BY DEF Groups!Create, Groups!Move
<1>2. PICK x : x = [step |-> step, unit |-> u, to |-> to]
    OBVIOUS
<1>3. /\ x \in MoveRequests /\ x.step = step /\ x.unit = u /\ x.to = to
      /\ move' = [move EXCEPT ![r] = x] /\ UNCHANGED <<parent, hung>>
    BY <1>1, <1>2 DEF Groups!Begin, MoveRequests
<1>4. PICK lap \in BOOLEAN : lap = (step = "unit" /\ \E q \in Two : Groups!Moving(q))
    OBVIOUS
<1>5. overlap' = (overlap \/ lap) /\ overlap \in BOOLEAN
    BY <1>1, <1>4 DEF Groups!Begin, GroupsInv
<1>6. step = "unit" => Seen(u) /\ (to = None \/ Seen(to))
    BY <1>1 DEF Seen, Groups!Ids
<1>7. overlap' \in BOOLEAN /\ (overlap => overlap')
    BY <1>5
<1>8. step = "unit" => overlap' \/ \A q \in Two : ~Groups!Moving(q)
    BY <1>4, <1>5
<1>9. GroupsForm => ~hung'
    BY <1>3 DEF GroupsForm
<1> QED
    BY <1>1, <1>3, <1>6, <1>7, <1>8, <1>9, RequestKeeps

\* The queries of a move before its update.
LEMMA QueryKeeps ==
    ASSUME GroupsInv, NEW r \in Two,
           Groups!FindUnit(r) \/ Groups!FindParent(r) \/ Groups!Walk(r)
    PROVE  GroupsInv'
<1>1. PICK x : x = move[r]
    OBVIOUS
<1>2. /\ x \in MoveRequests /\ Groups!Moving(r) /\ Seen(x.unit) /\ (x.to = None \/ Seen(x.to))
      /\ UNCHANGED <<parent, overlap>> /\ overlap \in BOOLEAN
    BY <1>1 DEF GroupsInv, MoveRequests, Groups!Moving, Groups!FindUnit, Groups!FindParent,
       Groups!Walk
<1>3. CASE move' = [move EXCEPT ![r] = Groups!Idle] /\ hung' = hung
    BY <1>2, <1>3, RequestKeeps DEF Groups!Idle, MoveRequests, GroupsForm
<1>4. ASSUME NEW s \in {"write", "parent", "walk"}, Groups!Goes(r, s), hung' = hung,
             s = "write" /\ GroupsForm => x.unit \notin Groups!Chain(x.to)
      PROVE  GroupsInv'
  <2>1. PICK y : y = [x EXCEPT !.step = s]
    OBVIOUS
  <2>2. y \in MoveRequests /\ y.step = s /\ y.unit = x.unit /\ y.to = x.to
    BY <1>2, <2>1 DEF MoveRequests
  <2>3. move' = [move EXCEPT ![r] = y]
    BY <1>1, <1>4, <2>1 DEF Groups!Goes
  <2> QED
    BY <1>2, <1>4, <2>2, <2>3, RequestKeeps DEF GroupsForm
<1>5. CASE Groups!FindUnit(r)
  <2>1. x.to = None => Groups!Chain(x.to) = {}
    BY RegistryAssumption DEF Groups!Chain, Groups!Ids
  <2> QED
    BY <1>1, <1>3, <1>4, <1>5, <2>1 DEF Groups!FindUnit, Groups!Ends
<1>6. CASE Groups!FindParent(r)
    BY <1>1, <1>3, <1>4, <1>6 DEF Groups!FindParent, Groups!Ends
<1>7. CASE Groups!Walk(r)
  <2>1. CASE Groups!Ends(r) /\ UNCHANGED hung
    BY <1>3, <2>1 DEF Groups!Ends
  <2>2. CASE /\ hung' = TRUE /\ UNCHANGED move
             /\ \E v \in Groups!Chain(x.to) : Groups!OnCycle(v)
    <3>1. ~GroupsForm
      BY <2>2 DEF GroupsForm, Groups!Forest, Groups!Chain
    <3>2. move' = [move EXCEPT ![r] = x] /\ x.step = "walk"
      BY <1>1, <1>7, <2>2 DEF Groups!Walk, GroupsInv
    <3> QED
      BY <1>2, <3>1, <3>2, RequestKeeps
  <2>3. CASE /\ Groups!Goes(r, "write") /\ UNCHANGED hung /\ x.unit \notin Groups!Chain(x.to)
    BY <1>4, <2>3
  <2> QED
    BY <1>1, <1>7, <2>1, <2>2, <2>3 DEF Groups!Walk
<1> QED
    BY <1>5, <1>6, <1>7

\* A group comes as a leaf, or a group goes with all below it.
LEMMA TreeChangeKeeps ==
    ASSUME GroupsInv, (\E r \in Two : Groups!Insert(r)) \/ (\E u \in Rows : Groups!Remove(u))
    PROVE  GroupsInv'
<1>1. /\ None \notin Rows /\ Groups!Ids \subseteq Rows /\ move \in [Two -> MoveRequests]
      /\ parent \in [Rows -> Rows \cup {"free", "gone", None}]
      /\ \A v \in Groups!Ids : parent[v] \in Groups!Ids \cup {None}
    BY RegistryAssumption DEF Groups!Ids, GroupsInv, MoveRequests
<1>2. ASSUME NEW r \in Two, Groups!Insert(r) PROVE GroupsInv'
  <2>1. PICK u, w : u = move[r].unit /\ w = move[r].to
    OBVIOUS
  <2>2. /\ move' = [move EXCEPT ![r] = Groups!Idle] /\ UNCHANGED <<hung, overlap>>
        /\ Groups!Idle \in MoveRequests /\ Groups!Idle.step = "idle"
    BY <1>2 DEF Groups!Insert, Groups!Ends, Groups!Idle, MoveRequests
  <2>3. move' \in [Two -> MoveRequests] /\ \A q \in Two : Groups!Moving(q)' => move'[q] = move[q]
    BY <1>1, <2>2 DEF Groups!Moving
  <2>4. CASE parent' = parent
    <3>1. \A q \in Rows : Seen(q) => Seen(q)'
      BY <2>4 DEF Seen
    <3> QED
      BY <1>1, <2>2, <2>3, <2>4, <3>1, TreeKeeps DEF Groups!Ids
  <2>5. CASE /\ w \in Groups!Ids \cup {None} /\ parent[u] = "free" /\ u \in Rows
             /\ parent' = [parent EXCEPT ![u] = w]
    <3>1. /\ parent' \in [Rows -> Rows \cup {"free", "gone", None}]
          /\ parent'[u] = w /\ \A v \in Rows : v # u => parent'[v] = parent[v]
      BY <1>1, <2>5
    <3>2. (Groups!Ids)' = Groups!Ids \cup {u} /\ u \notin Groups!Ids
      BY <1>1, <2>5, <3>1, AdminAssumption DEF Groups!Ids
    <3>3. \A q \in Rows : Seen(q) => Seen(q)'
      BY <2>5, <3>1 DEF Seen
    <3>4. \A v \in (Groups!Ids)' : parent'[v] \in (Groups!Ids)' \cup {None}
      BY <1>1, <2>5, <3>1, <3>2
    <3> QED
      BY <1>1, <2>2, <2>3, <2>5, <3>1, <3>2, <3>3, <3>4, TreeKeeps
  <2>6. u = None => parent' = parent
    BY <1>1, <1>2, <2>1 DEF Groups!Insert
  <2> QED
    BY <1>1, <1>2, <2>1, <2>4, <2>5, <2>6 DEF Groups!Insert, MoveRequests
<1>3. ASSUME NEW u \in Rows, Groups!Remove(u) PROVE GroupsInv'
  <2>1. /\ parent' = [v \in Rows |-> IF v \in Groups!Subtree(u) THEN "gone" ELSE parent[v]]
        /\ UNCHANGED <<move, hung, overlap>> /\ u \in Groups!Ids
    BY <1>3 DEF Groups!Remove
  <2>2. parent' \in [Rows -> Rows \cup {"free", "gone", None}]
    BY <1>1, <2>1
  <2>3. (Groups!Ids)' = Groups!Ids \ Groups!Subtree(u)
    BY <1>1, <2>1 DEF Groups!Ids
  <2>4. ASSUME NEW v \in (Groups!Ids)'
        PROVE  v \in Groups!Ids /\ parent'[v] = parent[v] /\ parent'[v] \in (Groups!Ids)' \cup {None}
    <3>1. v \in Groups!Ids /\ parent'[v] = parent[v] /\ u \notin Groups!Chain(v)
      BY <1>1, <2>1, <2>3 DEF Groups!Subtree
    <3>2. parent[v] \in Groups!Ids => Groups!Chain(parent[v]) \subseteq Groups!Chain(v)
      BY <3>1, ChainRises, ChainGrows
    <3>3. parent[v] \in Groups!Ids => parent[v] \notin Groups!Subtree(u)
      BY <3>1, <3>2 DEF Groups!Subtree
    <3> QED
      BY <1>1, <2>3, <3>1, <3>3
  <2>5. \A v \in Rows : Seen(v) => Seen(v)'
    BY <1>1, <2>1 DEF Seen
  <2>6. \A q \in Two : Groups!Moving(q)' => move'[q] = move[q]
    BY <2>1
  <2> QED
    BY <1>1, <2>1, <2>2, <2>4, <2>5, <2>6, TreeKeeps
<1> QED
    BY <1>2, <1>3

\* For any groups and requests: as long as moves come one after the other, the groups form
\* a forest and every walk ends, whatever is created or removed between their queries.
THEOREM ForestIsKept == Groups!Spec => []LoneMovesKeepForest
<1>1. Groups!Init => GroupsInv
  <2> SUFFICES ASSUME Groups!Init PROVE GroupsInv
    OBVIOUS
  <2>1. /\ parent \in [Rows -> Rows \cup {"free", "gone", None}] /\ Groups!Ids = {}
        /\ Groups!Idle \in MoveRequests /\ Groups!Idle.step = "idle"
    BY DEF Groups!Init, Groups!Ids, Groups!Idle, MoveRequests
  <2>2. move \in [Two -> MoveRequests] /\ \A r \in Two : move[r].step = "idle"
    BY <2>1 DEF Groups!Init
  <2> QED
    BY <2>1, <2>2 DEF Groups!Init, GroupsInv, GroupsForm, Groups!Forest, Groups!Moving, MoveRequests
<1>2. GroupsInv /\ [Groups!Next]_Groups!vars => GroupsInv'
  <2> SUFFICES ASSUME GroupsInv, [Groups!Next]_Groups!vars PROVE GroupsInv'
    OBVIOUS
  <2>1. CASE \E r \in Two, u \in Rows, to \in Rows \cup {None} :
               Groups!Create(r, u, to) \/ Groups!Move(r, u, to)
    BY <2>1, BeginKeeps
  <2>2. CASE \E r \in Two : Groups!Step(r)
    BY <2>2, TreeChangeKeeps, QueryKeeps, WriteKeeps DEF Groups!Step
  <2>3. CASE \E u \in Rows : Groups!Remove(u)
    BY <2>3, TreeChangeKeeps
  <2>4. CASE UNCHANGED Groups!vars
    <3>1. /\ UNCHANGED <<parent, move, hung, overlap>> /\ \A v : Seen(v)' <=> Seen(v)
          /\ (Groups!Ids)' = Groups!Ids
      BY <2>4 DEF Groups!vars, Seen, Groups!Ids
    <3> QED
      BY <3>1, TreeKeeps DEF GroupsInv, MoveRequests
  <2> QED
    BY <2>1, <2>2, <2>3, <2>4 DEF Groups!Next
<1>3. GroupsInv => LoneMovesKeepForest
    BY DEF GroupsInv, GroupsForm, LoneMovesKeepForest, Groups!LoneMovesKeepForest
<1> QED
    BY <1>1, <1>2, <1>3, PTL DEF Groups!Spec

=============================================================================
