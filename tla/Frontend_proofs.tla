---------------------------- MODULE Frontend_proofs ----------------------------
(***************************************************************************)
(* The parts of the frontend run the hook as AsyncAction has it, so what   *)
(* is proved of the hook holds of the views; and what each part adds to    *)
(* it: the result cache keeps its size and its newest entries, the upload  *)
(* view its status line, the service worker the page it serves.            *)
(***************************************************************************)
EXTENDS Frontend, FunctionTheorems, FiniteSetTheorems, TLAPS

(***************************************************************************)
(* The hook.  For any number of runs, and responses in any order: the data *)
(* shown is the latest run's, and a spinner is shown for a request that    *)
(* may answer.                                                             *)
(***************************************************************************)
ActionRun == [phase : Pending \cup {"ended"}, aborted : BOOLEAN]

\* What makes the properties inductive: a run has an abort behind it as soon
\* as another one begins, so that whatever it still delivers is dropped.
SupersededAreAborted == \A i \in 1..Latest : i < Latest => runs[i].aborted

ActionInv ==
    /\ ActionTypeOK
    /\ SupersededAreAborted
    /\ DataIsLatest
    /\ shown.loading => runs # <<>>
    /\ SpinnerIsHonest

LEMMA RunsAreTyped ==
    ASSUME ActionTypeOK
    PROVE  /\ runs \in Seq(ActionRun) /\ Latest \in 0..MaxRuns
           /\ \A i \in 1..Latest : runs[i] \in ActionRun
<1>1. runs \in Seq(ActionRun)
    BY DEF ActionTypeOK, ActionRun
<1>2. Latest \in 0..MaxRuns
    BY <1>1, RunsAssumption DEF ActionTypeOK, Latest
<1> QED BY <1>1, <1>2 DEF Latest

\* Every state shown is a state of the hook.
LEMMA ShowsAreTyped ==
    /\ ShowSpinner \in AsyncState
    /\ \A i \in 0..MaxRuns : ShowData(i) \in AsyncState /\ ShowError(i) \in AsyncState
<1> DEFINE Shown == 0..MaxRuns
<1>1. None \in Shown
    BY RunsAssumption DEF None
<1>2. AsyncState = [data : Shown, loading : BOOLEAN, error : Shown]
    BY DEF AsyncState
<1> HIDE DEF Shown
<1>3. /\ ShowSpinner \in AsyncState
      /\ \A i \in Shown : ShowData(i) \in AsyncState /\ ShowError(i) \in AsyncState
    BY <1>1, <1>2 DEF ShowSpinner, ShowData, ShowError
<1> QED BY <1>3 DEF Shown

\* abort() keeps the type, and what it shows of an error is no data.
LEMMA AbortedIsTyped ==
    ASSUME NEW run \in ActionRun
    PROVE  Aborted(run) \in ActionRun /\ Aborted(run).aborted
BY DEF Aborted, ActionRun, Pending

\* A step that changes run i alone.
LEMMA UpdateRun ==
    ASSUME ActionTypeOK, NEW i \in 1..Latest, NEW run \in ActionRun,
           runs' = [runs EXCEPT ![i] = run]
    PROVE  /\ runs' \in Seq(ActionRun) /\ Latest' = Latest /\ Latest' <= MaxRuns
           /\ runs'[i] = run
           /\ \A j \in 1..Latest : j # i => runs'[j] = runs[j]
BY RunsAreTyped DEF ActionTypeOK, Latest

\* A run comes to its end, and what is shown afterwards is an error, or the
\* data of a run nothing has aborted, or what was shown before.
LEMMA EndKeeps ==
    ASSUME ActionInv, NEW i \in 1..Latest, End(i), InFlight(i),
           \/ shown' = ShowError(i)
           \/ shown' = ShowData(i) /\ ~runs[i].aborted
           \/ shown' = shown /\ runs[i].aborted
    PROVE  ActionInv'
<1>1. ActionTypeOK /\ i \in 1..MaxRuns /\ runs \in Seq(ActionRun) /\ runs[i] \in ActionRun
    <2>1. ActionTypeOK
        BY DEF ActionInv
    <2>2. Latest \in 0..MaxRuns
        BY <2>1, RunsAreTyped
    <2>3. Latest \in Nat /\ Latest <= MaxRuns /\ MaxRuns \in Nat
        BY <2>2, RunsAssumption
    <2>4. i \in 1..MaxRuns
        BY <2>3
    <2> QED BY <2>1, <2>4, RunsAreTyped
<1> DEFINE ended == [runs[i] EXCEPT !.phase = "ended"]
<1>2. ended \in ActionRun /\ ended.aborted = runs[i].aborted
    BY <1>1 DEF ActionRun
<1>3. runs' = [runs EXCEPT ![i] = ended]
    BY <1>1 DEF End
<1>4. /\ runs' \in Seq(ActionRun) /\ Latest' = Latest /\ Latest' <= MaxRuns
      /\ runs'[i] = ended /\ \A j \in 1..Latest : j # i => runs'[j] = runs[j]
    <2> HIDE DEF ended
    <2> QED BY <1>1, <1>2, <1>3, UpdateRun
<1>5. shown' \in AsyncState
    <2>1. i \in 0..MaxRuns /\ shown \in AsyncState
        BY <1>1, RunsAssumption DEF ActionTypeOK
    <2> QED BY <2>1, ShowsAreTyped
<1>6. ActionTypeOK'
    BY <1>4, <1>5 DEF ActionTypeOK, ActionRun
<1>7. SupersededAreAborted'
    BY <1>2, <1>4 DEF ActionInv, SupersededAreAborted
<1>8. Latest \in Nat
    BY <1>1 DEF Latest
<1>9. DataIsLatest'
    BY <1>4, <1>8 DEF ActionInv, DataIsLatest, SupersededAreAborted, ShowError, ShowData, None
<1>10. (shown.loading => runs # <<>>)' /\ SpinnerIsHonest'
    <2>1. CASE shown' = shown /\ runs[i].aborted
        <3>1. shown.loading => i # Latest
            BY <2>1 DEF ActionInv, SpinnerIsHonest
        <3>2. shown.loading => Latest \in 1..Latest /\ runs # <<>>
            BY <1>8 DEF ActionInv
        <3> QED BY <2>1, <3>1, <3>2, <1>4, <1>8 DEF ActionInv, SpinnerIsHonest, InFlight, Latest
    <2>2. CASE shown' = ShowError(i) \/ shown' = ShowData(i)
        BY <2>2 DEF ShowError, ShowData, SpinnerIsHonest
    <2> QED BY <2>1, <2>2
<1> QED BY <1>6, <1>7, <1>9, <1>10 DEF ActionInv

\* Headers or a body arrive: the run stays in flight.
LEMMA AdvanceKeeps ==
    ASSUME ActionInv, NEW i \in 1..Latest, NEW phase \in Pending,
           runs' = [runs EXCEPT ![i].phase = phase], UNCHANGED shown
    PROVE  ActionInv'
<1>1. ActionTypeOK /\ runs \in Seq(ActionRun) /\ runs[i] \in ActionRun /\ Latest \in Nat
    BY RunsAreTyped DEF ActionInv, Latest
<1> DEFINE advanced == [runs[i] EXCEPT !.phase = phase]
<1>2. advanced \in ActionRun /\ advanced.aborted = runs[i].aborted /\ advanced.phase = phase
    BY <1>1 DEF ActionRun
<1>3. runs' = [runs EXCEPT ![i] = advanced]
    BY <1>1
<1>4. /\ runs' \in Seq(ActionRun) /\ Latest' = Latest /\ Latest' <= MaxRuns
      /\ runs'[i] = advanced /\ \A j \in 1..Latest : j # i => runs'[j] = runs[j]
    <2> HIDE DEF advanced
    <2> QED BY <1>1, <1>2, <1>3, UpdateRun
<1>5. ActionTypeOK'
    BY <1>4 DEF ActionInv, ActionTypeOK, ActionRun
<1>6. SupersededAreAborted' /\ DataIsLatest'
    BY <1>2, <1>4 DEF ActionInv, SupersededAreAborted, DataIsLatest
<1>7. (shown.loading => runs # <<>>)'
    BY <1>1, <1>4 DEF ActionInv, Latest
<1>8. SpinnerIsHonest'
    <2>1. phase # "ended"
        BY DEF Pending
    <2> QED BY <1>1, <1>2, <1>4, <2>1 DEF ActionInv, SpinnerIsHonest, InFlight, Latest
<1> QED BY <1>5, <1>6, <1>7, <1>8 DEF ActionInv

\* A new run aborts the one before it.
LEMMA RunKeeps == ASSUME ActionInv, Run PROVE ActionInv'
<1> DEFINE new == [phase |-> "fetch", aborted |-> FALSE]
           before == IF runs = <<>> THEN runs
                     ELSE [runs EXCEPT ![Latest] = Aborted(runs[Latest])]
<1>1. ActionTypeOK /\ runs \in Seq(ActionRun) /\ Latest \in 0..MaxRuns /\ Latest < MaxRuns
    BY RunsAreTyped DEF ActionInv, Run
<1>2. new \in ActionRun
    BY DEF ActionRun, Pending
<1>3. /\ before \in Seq(ActionRun) /\ Len(before) = Latest
      /\ \A i \in 1..Latest : before[i].aborted
    <2>1. CASE runs = <<>>
        BY <1>1, <2>1 DEF Latest
    <2>2. CASE runs # <<>>
        <3>1. Latest \in 1..Latest
            BY <1>1, <2>2 DEF Latest
        <3>2. Aborted(runs[Latest]) \in ActionRun /\ Aborted(runs[Latest]).aborted
            BY <1>1, <3>1, RunsAreTyped, AbortedIsTyped
        <3> QED BY <1>1, <2>2, <3>1, <3>2 DEF ActionInv, SupersededAreAborted, Latest
    <2> QED BY <2>1, <2>2
<1>4. runs' = Append(before, new)
    <2>1. CASE runs = <<>>
        BY <2>1 DEF Run
    <2>2. CASE runs # <<>>
        BY <1>1, <2>2 DEF Run
    <2> QED BY <2>1, <2>2
<1>5. \/ shown' = ShowSpinner
      \/ shown' = ShowError(Latest)
    BY DEF Run, AfterAbort
<1> HIDE DEF before
<1>6. /\ runs' \in Seq(ActionRun) /\ Latest' = Latest + 1 /\ runs'[Latest'] = new
      /\ \A i \in 1..Latest : runs'[i] = before[i]
    BY <1>1, <1>2, <1>3, <1>4 DEF Latest
<1>7. ActionTypeOK'
    <2>1. shown' \in AsyncState
        BY <1>1, <1>5, ShowsAreTyped
    <2> QED BY <1>1, <1>6, <2>1, RunsAssumption DEF ActionTypeOK, ActionRun
<1>8. SupersededAreAborted'
    BY <1>1, <1>3, <1>6 DEF SupersededAreAborted
<1>9. DataIsLatest'
    BY <1>5 DEF DataIsLatest, ShowSpinner, ShowError
<1>10. (shown.loading => runs # <<>>)'
    BY <1>1, <1>6 DEF Latest
<1>11. SpinnerIsHonest'
    BY <1>6 DEF SpinnerIsHonest, InFlight
<1> QED BY <1>7, <1>8, <1>9, <1>10, <1>11 DEF ActionInv

LEMMA CancelKeeps == ASSUME ActionInv, Cancel PROVE ActionInv'
<1>1. ActionTypeOK /\ runs \in Seq(ActionRun) /\ Latest \in 0..MaxRuns /\ Latest \in 1..Latest
    BY RunsAreTyped DEF ActionInv, Cancel, Latest
<1>2. Aborted(runs[Latest]) \in ActionRun /\ Aborted(runs[Latest]).aborted
    BY <1>1, RunsAreTyped, AbortedIsTyped
<1>3. /\ runs' \in Seq(ActionRun) /\ Latest' = Latest /\ Latest' <= MaxRuns
      /\ runs'[Latest] = Aborted(runs[Latest])
      /\ \A j \in 1..Latest : j # Latest => runs'[j] = runs[j]
    BY <1>1, <1>2, UpdateRun DEF Cancel
<1>4. \/ shown' = [shown EXCEPT !.loading = FALSE]
      \/ shown' = ShowError(Latest)
    BY DEF Cancel, AfterAbort
<1>5. shown' \in AsyncState /\ ~shown'.loading /\ (shown'.data # None => shown'.data = shown.data)
    <2>1. CASE shown' = [shown EXCEPT !.loading = FALSE]
        BY <1>1, <2>1 DEF ActionTypeOK, AsyncState
    <2>2. CASE shown' = ShowError(Latest)
        <3>1. shown' \in AsyncState
            BY <1>1, <2>2, ShowsAreTyped
        <3> QED BY <2>2, <3>1 DEF ShowError, None
    <2> QED BY <1>4, <2>1, <2>2
<1>6. ActionTypeOK'
    BY <1>3, <1>5 DEF ActionTypeOK, ActionRun
<1>7. SupersededAreAborted'
    BY <1>2, <1>3 DEF ActionInv, SupersededAreAborted
<1> QED BY <1>3, <1>5, <1>6, <1>7 DEF ActionInv, DataIsLatest, SpinnerIsHonest

LEMMA ActionInvHolds == ActionSpec => []ActionInv
<1>1. ActionInit => ActionInv
    BY RunsAssumption DEF ActionInit, ActionInv, ActionTypeOK, AsyncState, ActionRun, Latest,
                          SupersededAreAborted, DataIsLatest, SpinnerIsHonest, None
<1>2. ActionInv /\ [ActionNext]_action_vars => ActionInv'
    <2> SUFFICES ASSUME ActionInv, [ActionNext]_action_vars PROVE ActionInv'
        OBVIOUS
    <2>1. CASE UNCHANGED action_vars
        BY <2>1 DEF action_vars, ActionInv, ActionTypeOK, SupersededAreAborted, DataIsLatest,
                    SpinnerIsHonest, InFlight, Latest
    <2>2. CASE Run
        BY <2>2, RunKeeps
    <2>3. CASE Cancel
        BY <2>3, CancelKeeps
    <2>4. ASSUME NEW i \in 1..Latest, Headers(i) \/ BodyRead(i) PROVE ActionInv'
        <3>1. /\ UNCHANGED shown
              /\ \E phase \in Pending : runs' = [runs EXCEPT ![i].phase = phase]
            BY <2>4 DEF Headers, BodyRead, Pending
        <3> QED BY <3>1, AdvanceKeeps
    <2>5. ASSUME NEW i \in 1..Latest,
                 FetchFails(i) \/ BodyFails(i) \/ DeliverGarbage(i) \/ DeliverError(i)
          PROVE  ActionInv'
        <3>1. End(i) /\ InFlight(i) /\ shown' = ShowError(i)
            BY <2>5 DEF FetchFails, BodyFails, DeliverGarbage, DeliverError, InFlight
        <3> QED BY <3>1, EndKeeps
    <2>6. ASSUME NEW i \in 1..Latest, DeliverData(i) PROVE ActionInv'
        <3>1. End(i) /\ InFlight(i) /\ shown' = Data(i)
            BY <2>6 DEF DeliverData, InFlight
        <3>2. \/ shown' = ShowData(i) /\ ~runs[i].aborted
              \/ shown' = shown /\ runs[i].aborted
            BY <3>1 DEF Data
        <3> QED BY <3>1, <3>2, EndKeeps
    <2> QED BY <2>1, <2>2, <2>3, <2>4, <2>5, <2>6 DEF ActionNext, Answers
<1> QED BY <1>1, <1>2, PTL DEF ActionSpec

\* A stale response never overwrites a newer one (useAsyncAction.ts:13-14),
\* as far as data goes.
THEOREM StaleDataIsDropped == ActionSpec => []DataIsLatest
BY ActionInvHolds, PTL DEF ActionInv

\* The spinner stands for a request that may still answer.
THEOREM SpinnersAreHonest == ActionSpec => []SpinnerIsHonest
BY ActionInvHolds, PTL DEF ActionInv

\* What a step does to a run: it goes on or ends, and only Run and Cancel
\* abort one, the latest.
LEMMA ResponsesAbortNothing ==
    ASSUME ActionTypeOK, NEW i \in 1..Latest, Answers(i)
    PROVE  /\ Latest' = Latest
           /\ \A j \in 1..Latest : /\ runs'[j].aborted = runs[j].aborted
                                   /\ j # i => runs'[j] = runs[j]
           /\ InFlight(i)
<1>1. runs \in Seq(ActionRun) /\ runs[i] \in ActionRun /\ Latest \in Nat
    BY RunsAreTyped DEF Latest
<1>2. PICK phase \in Pending \cup {"ended"} : runs' = [runs EXCEPT ![i].phase = phase]
    BY DEF Answers, Headers, FetchFails, BodyRead, BodyFails, DeliverData, DeliverGarbage,
           DeliverError, End, Pending
<1> DEFINE next == [runs[i] EXCEPT !.phase = phase]
<1>3. next \in ActionRun /\ next.aborted = runs[i].aborted
    BY <1>1 DEF ActionRun
<1>4. runs' = [runs EXCEPT ![i] = next]
    BY <1>1, <1>2
<1>5. InFlight(i)
    BY DEF Answers, Headers, FetchFails, BodyRead, BodyFails, DeliverData, DeliverGarbage,
           DeliverError, InFlight
<1> HIDE DEF next
<1> QED BY <1>3, <1>4, <1>5, UpdateRun

(***************************************************************************)
(* Errors.  ErrorIsLatest, which the code does not keep, takes a run that  *)
(* begins while the one before it is on its way, though it was cancelled.  *)
(***************************************************************************)
RunsAreSerial == [][Run => runs = <<>> \/ ~InFlight(Latest)]_action_vars

SerialInv ==
    /\ \A i \in 1..Latest : i < Latest => ~InFlight(i)
    /\ ErrorIsLatest

LEMMA SerialStep ==
    ASSUME ActionInv, SerialInv, [ActionNext]_action_vars,
           Run => runs = <<>> \/ ~InFlight(Latest)
    PROVE  SerialInv'
<1>1. ActionTypeOK /\ runs \in Seq(ActionRun) /\ Latest \in 0..MaxRuns /\ Latest \in Nat
    BY RunsAreTyped DEF ActionInv, Latest
<1>2. CASE UNCHANGED action_vars
    BY <1>2 DEF action_vars, SerialInv, ErrorIsLatest, InFlight, Latest
<1>3. CASE Run
    <2>1. CASE runs = <<>>
        <3>1. Latest' = 1 /\ shown' = ShowSpinner
            BY <1>3, <2>1 DEF Run, Latest
        <3> QED BY <3>1 DEF SerialInv, ErrorIsLatest, ShowSpinner, None
    <2>2. CASE runs # <<>>
        <3>1. Latest \in 1..Latest /\ ~InFlight(Latest)
            BY <1>1, <1>3, <2>2 DEF Latest
        <3>2. runs[Latest].phase = "ended" /\ Aborted(runs[Latest]).phase = "ended"
              /\ Aborted(runs[Latest]) \in ActionRun
            <4>1. runs[Latest] \in ActionRun /\ runs[Latest].phase = "ended"
                BY <1>1, <3>1, RunsAreTyped DEF InFlight
            <4> QED BY <4>1, AbortedIsTyped DEF Aborted
        <3> DEFINE before == [runs EXCEPT ![Latest] = Aborted(runs[Latest])]
                   new == [phase |-> "fetch", aborted |-> FALSE]
        <3>3. /\ before \in Seq(ActionRun) /\ Len(before) = Latest
              /\ \A i \in 1..Latest : before[i].phase = "ended"
            BY <1>1, <3>1, <3>2 DEF SerialInv, InFlight, Latest
        <3>4. runs' = Append(before, new) /\ new \in ActionRun
            BY <1>3, <2>2 DEF Run, ActionRun, Pending
        <3>5. shown' = ShowSpinner
            BY <1>3, <2>2, <3>2 DEF Run, AfterAbort
        <3> HIDE DEF before, new
        <3>6. Latest' = Latest + 1 /\ \A i \in 1..Latest : runs'[i].phase = "ended"
            BY <3>3, <3>4 DEF Latest
        <3> QED BY <1>1, <3>5, <3>6 DEF SerialInv, ErrorIsLatest, InFlight, ShowSpinner, None
    <2> QED BY <2>1, <2>2
<1>4. CASE Cancel
    <2>1. Latest \in 1..Latest
        BY <1>1, <1>4 DEF Cancel, Latest
    <2>2. Aborted(runs[Latest]) \in ActionRun
        BY <1>1, <2>1, RunsAreTyped, AbortedIsTyped
    <2>3. Latest' = Latest /\ \A j \in 1..Latest : j # Latest => runs'[j] = runs[j]
        BY <1>1, <1>4, <2>1, <2>2, UpdateRun DEF Cancel
    <2>4. shown'.error # None => shown'.error = shown.error \/ shown'.error = Latest
        <3>1. shown' = [shown EXCEPT !.loading = FALSE] \/ shown' = ShowError(Latest)
            BY <1>4 DEF Cancel, AfterAbort
        <3> QED BY <1>1, <3>1 DEF ActionTypeOK, AsyncState, ShowError
    <2> QED BY <1>1, <2>3, <2>4 DEF SerialInv, ErrorIsLatest, InFlight
<1>5. ASSUME NEW i \in 1..Latest, Answers(i) PROVE SerialInv'
    <2>1. Latest' = Latest /\ InFlight(i) /\ \A j \in 1..Latest : j # i => runs'[j] = runs[j]
        BY <1>1, <1>5, ResponsesAbortNothing
    <2>2. i = Latest
        BY <1>1, <2>1 DEF SerialInv
    <2>3. shown' \in {shown, ShowError(i), ShowData(i)}
        BY <1>5 DEF Answers, Headers, FetchFails, BodyRead, BodyFails, DeliverData, Data,
                    DeliverGarbage, DeliverError
    <2> QED BY <1>1, <2>1, <2>2, <2>3 DEF SerialInv, ErrorIsLatest, InFlight, ShowError, ShowData, None
<1> QED BY <1>2, <1>3, <1>4, <1>5 DEF ActionNext

\* If no run begins while another is on its way, an error that is shown is
\* the latest run's.
THEOREM SerialRunsShowTheLatestError == ActionSpec /\ RunsAreSerial => []ErrorIsLatest
<1>1. ActionInit => SerialInv
    BY DEF ActionInit, SerialInv, ErrorIsLatest, Latest, None
<1>2. /\ ActionInv /\ SerialInv /\ [ActionNext]_action_vars
      /\ [Run => runs = <<>> \/ ~InFlight(Latest)]_action_vars
      => SerialInv'
    <2> SUFFICES ASSUME ActionInv, SerialInv, [ActionNext]_action_vars,
                        [Run => runs = <<>> \/ ~InFlight(Latest)]_action_vars
                 PROVE  SerialInv'
        OBVIOUS
    <2>1. CASE UNCHANGED action_vars
        BY <2>1 DEF action_vars, SerialInv, ErrorIsLatest, InFlight, Latest
    <2>2. CASE ~(UNCHANGED action_vars)
        BY <2>2, SerialStep
    <2> QED BY <2>1, <2>2
<1>3. SerialInv => ErrorIsLatest
    BY DEF SerialInv
<1> QED BY <1>1, <1>2, <1>3, ActionInvHolds, PTL DEF ActionSpec, RunsAreSerial

(***************************************************************************)
(* Aborts.  What is shown goes together: data that has arrived, or a       *)
(* spinner with no error beside it.                                        *)
(***************************************************************************)
ShownInv ==
    /\ shown.data # None => runs # <<>> /\ ~InFlight(Latest)
    /\ shown.loading => shown.error = None

LEMMA ShownInvStep ==
    ASSUME ActionInv, ShownInv, [ActionNext]_action_vars
    PROVE  ShownInv'
<1>1. ActionTypeOK /\ runs \in Seq(ActionRun) /\ Latest \in 0..MaxRuns /\ Latest \in Nat
    BY RunsAreTyped DEF ActionInv, Latest
<1>2. CASE UNCHANGED action_vars
    BY <1>2 DEF action_vars, ShownInv, InFlight, Latest
<1>3. CASE Run
    BY <1>3 DEF Run, AfterAbort, ShowSpinner, ShowError, ShownInv
<1>4. CASE Cancel
    <2>1. shown.data = None
        BY <1>1, <1>4 DEF Cancel, ActionInv, SpinnerIsHonest, ShownInv
    <2>2. shown' = [shown EXCEPT !.loading = FALSE] \/ shown' = ShowError(Latest)
        BY <1>4 DEF Cancel, AfterAbort
    <2>3. shown'.data = None /\ ~shown'.loading
        <3>1. CASE shown' = [shown EXCEPT !.loading = FALSE]
            BY <1>1, <2>1, <3>1 DEF ActionTypeOK, AsyncState
        <3>2. CASE shown' = ShowError(Latest)
            BY <3>2 DEF ShowError
        <3> QED BY <2>2, <3>1, <3>2
    <2> QED BY <2>3 DEF ShownInv
<1>5. ASSUME NEW i \in 1..Latest, Answers(i) PROVE ShownInv'
    <2>1. /\ Latest' = Latest /\ InFlight(i) /\ runs' # <<>>
          /\ \A j \in 1..Latest : j # i => runs'[j] = runs[j]
        BY <1>1, <1>5, ResponsesAbortNothing DEF Latest
    <2>2. CASE shown' = shown
        <3>1. shown.data # None => Latest # i /\ runs'[Latest] = runs[Latest]
            BY <1>1, <2>1 DEF ShownInv, Latest
        <3> QED BY <2>1, <2>2, <3>1 DEF ShownInv, InFlight
    <2>3. CASE shown' = ShowError(i)
        BY <2>3 DEF ShowError, ShownInv
    <2>4. CASE DeliverData(i) /\ ~runs[i].aborted
        <3>1. i = Latest
            BY <1>1, <2>4 DEF ActionInv, SupersededAreAborted
        <3>2. runs'[i].phase = "ended"
            BY <1>1, <2>4, RunsAreTyped DEF DeliverData, End, Latest, ActionRun
        <3>3. shown' = ShowData(i)
            BY <2>4 DEF DeliverData, Data
        <3> QED BY <2>1, <3>1, <3>2, <3>3 DEF ShownInv, ShowData, InFlight
    <2> QED BY <1>5, <2>2, <2>3, <2>4
            DEF Answers, Headers, FetchFails, BodyRead, BodyFails, DeliverData, DeliverGarbage,
                DeliverError, Data
<1> QED BY <1>2, <1>3, <1>4, <1>5 DEF ActionNext

LEMMA ShownInvHolds == ActionSpec => []ShownInv
<1>1. ActionInit => ShownInv
    BY DEF ActionInit, ShownInv
<1> QED BY <1>1, ShownInvStep, ActionInvHolds, PTL DEF ActionSpec

\* Aborting a request the backend has not refused is never shown as an error
\* (Dashboard.tsx:24-25).
THEOREM AbortsStayQuiet == ActionSpec => AbortsAreNotErrors
<1> DEFINE Quiet ==
        \A i \in 1..Latest :
            runs[i].phase \in {"fetch", "body", "read"} /\ ~runs[i].aborted /\ runs'[i].aborted
                => shown'.error # i
<1>1. ASSUME ActionInv, ShownInv, [ActionNext]_action_vars PROVE [Quiet]_action_vars
    <2> SUFFICES ASSUME NEW i \in 1..Latest, runs[i].phase \in {"fetch", "body", "read"},
                        ~runs[i].aborted, runs'[i].aborted, ActionNext
                 PROVE  shown'.error # i
        BY <1>1 DEF action_vars
    <2>1. i = Latest /\ i # None /\ runs \in Seq(ActionRun) /\ Latest \in Nat
        BY <1>1, RunsAreTyped DEF ActionInv, SupersededAreAborted, None, Latest
    <2>2. AfterAbort(runs[Latest], Latest, shown) = shown
        BY <2>1 DEF AfterAbort
    <2>3. CASE Run
        <3>1. shown' = ShowSpinner
            BY <2>1, <2>3 DEF Run, AfterAbort, Latest
        <3> QED BY <2>1, <3>1 DEF ShowSpinner
    <2>4. CASE Cancel
        <3>1. shown' = [shown EXCEPT !.loading = FALSE] /\ shown.error = None
            BY <1>1, <2>1, <2>4 DEF Cancel, AfterAbort, ShownInv
        <3>2. shown'.error = None
            BY <1>1, <3>1 DEF ActionInv, ActionTypeOK, AsyncState
        <3> QED BY <2>1, <3>2
    <2>5. ASSUME NEW j \in 1..Latest, Answers(j) PROVE FALSE
        BY <1>1, <2>5, ResponsesAbortNothing DEF ActionInv
    <2> QED BY <2>3, <2>4, <2>5 DEF ActionNext
<1> QED BY <1>1, ActionInvHolds, ShownInvHolds, PTL DEF ActionSpec, AbortsAreNotErrors

----------------------------------------------------------------------------
(***************************************************************************)
(* The views, which run it.                                                *)
(***************************************************************************)

\* A view that asks questions does to its hook what ActionNext does.
LEMMA ViewRunsTheHook ==
    ASSUME ViewNext PROVE [ActionNext]_action_vars
<1>1. CASE Submit \/ Cancel
    BY <1>1 DEF Submit, ActionNext
<1>2. ASSUME NEW i \in 1..Latest, Proceed(i) PROVE ActionNext
    <2>1. Answers(i)
        BY <1>2 DEF Proceed, Succeed, Answers
    <2> QED BY <2>1 DEF ActionNext
<1>3. CASE CacheNext /\ UNCHANGED action_vars
    BY <1>3
<1> QED BY <1>1, <1>2, <1>3 DEF ViewNext

\* So does the upload view; extractions go past the hook.
LEMMA UploadRunsTheHook ==
    ASSUME UploadNext PROVE [ActionNext]_action_vars
<1>1. CASE HandleSubmit
    BY <1>1 DEF HandleSubmit, ActionNext
<1>2. CASE HandleExtractGraph
    BY <1>2 DEF HandleExtractGraph
<1>3. CASE Cancel \/ \E i \in 1..Latest : Answers(i)
    BY <1>3 DEF ActionNext
<1>4. ASSUME NEW k \in DOMAIN extractions, ExtractionEnds(k) PROVE UNCHANGED action_vars
    BY <1>4 DEF ExtractionEnds
<1> QED BY <1>1, <1>2, <1>3, <1>4 DEF UploadNext

\* Every behaviour of the frontend is one of the hook (useAsyncAction.ts).
THEOREM FrontendRunsTheHook == FrontendSpec => ActionSpec
<1>1. FrontendInit => ActionInit
    BY DEF FrontendInit, ViewInit
<1>2. [FrontendNext]_frontend_vars => [ActionNext]_action_vars
    <2> SUFFICES ASSUME [FrontendNext]_frontend_vars PROVE [ActionNext]_action_vars
        OBVIOUS
    <2>1. CASE UNCHANGED frontend_vars
        BY <2>1 DEF frontend_vars, view_vars
    <2>2. CASE ViewNext
        BY <2>2, ViewRunsTheHook
    <2>3. CASE UploadNext
        BY <2>3, UploadRunsTheHook
    <2>4. CASE UNCHANGED <<view_vars, upload_vars>>
        BY <2>4 DEF view_vars
    <2>5. CASE OverviewNext
        BY <2>5 DEF OverviewNext, Mount, ActionNext
    <2> QED BY <2>1, <2>2, <2>3, <2>4, <2>5 DEF FrontendNext
<1> QED BY <1>1, <1>2, PTL DEF FrontendSpec, ActionSpec

\* A stale response never overwrites a newer one (useAsyncAction.ts:13-14),
\* as far as data goes, in any view.
THEOREM ViewsShowTheLatestData == FrontendSpec => []DataIsLatest
BY FrontendRunsTheHook, StaleDataIsDropped, PTL

\* A spinner in a view stands for a request that may still answer.
THEOREM ViewsSpinHonestly == FrontendSpec => []SpinnerIsHonest
BY FrontendRunsTheHook, SpinnersAreHonest, PTL

\* An abort shows no error in any view.
THEOREM ViewsAbortQuietly == FrontendSpec => AbortsAreNotErrors
BY FrontendRunsTheHook, AbortsStayQuiet, PTL

----------------------------------------------------------------------------
(***************************************************************************)
(* The result cache.  Every call of cacheResult has a time stamp of its    *)
(* own, and so have the entries: that is what orders them.                 *)
(***************************************************************************)
StampsDiffer ==
    /\ \A v, w \in writes : v.time = w.time => v = w
    /\ \A a, b \in DOMAIN store : store[a] = store[b] => a = b
    /\ \A w \in writes : w.stage = "put" => \A id \in DOMAIN store : store[id] # w.time

CacheInv ==
    /\ CacheTypeOK /\ IsFiniteSet(writes) /\ IsFiniteSet(DOMAIN store)
    /\ StampsDiffer
    /\ OvershootIsBounded

Older(id) == {other \in DOMAIN store : store[other] < store[id]}
Newer(id) == {other \in DOMAIN store : store[other] > store[id]}

\* The cursor removes as many entries as it is told to.
LEMMA OldestCount ==
    ASSUME CacheInv, NEW n \in Nat, n <= Cardinality(DOMAIN store)
    PROVE  Oldest(n) \subseteq DOMAIN store /\ n <= Cardinality(Oldest(n))
<1> DEFINE D == DOMAIN store
           Places == 0..(Cardinality(D) - 1)
           rank == [id \in D |-> Cardinality(Older(id))]
<1>1. /\ IsFiniteSet(D) /\ Cardinality(D) \in Nat /\ \A id \in D : store[id] \in Nat
      /\ \A a, b \in D : store[a] = store[b] => a = b
    BY FS_CardinalityType DEF CacheInv, CacheTypeOK, StampsDiffer
<1>2. \A id \in D : /\ IsFiniteSet(Older(id)) /\ Cardinality(Older(id)) \in Nat
                    /\ Cardinality(Older(id)) < Cardinality(D)
    <2> SUFFICES ASSUME NEW id \in D
                 PROVE  /\ IsFiniteSet(Older(id)) /\ Cardinality(Older(id)) \in Nat
                        /\ Cardinality(Older(id)) < Cardinality(D)
        OBVIOUS
    <2>1. Older(id) \in SUBSET D /\ id \notin Older(id)
        BY <1>1 DEF Older
    <2> QED BY <1>1, <2>1, FS_Subset, FS_CardinalityType
<1>3. \A a, b \in D : store[a] < store[b] => Cardinality(Older(a)) < Cardinality(Older(b))
    <2> SUFFICES ASSUME NEW a \in D, NEW b \in D, store[a] < store[b]
                 PROVE  Cardinality(Older(a)) < Cardinality(Older(b))
        OBVIOUS
    <2>1. Older(a) \in SUBSET Older(b) /\ a \in Older(b) /\ a \notin Older(a)
        BY <1>1 DEF Older
    <2> QED BY <1>2, <2>1, FS_Subset
<1>4. rank \in Injection(D, Places)
    <2>1. rank \in [D -> Places]
        BY <1>1, <1>2
    <2>2. ASSUME NEW a \in D, NEW b \in D, rank[a] = rank[b] PROVE a = b
        <3>1. Cardinality(Older(a)) = Cardinality(Older(b))
            BY <2>2
        <3>2. ~(store[a] < store[b]) /\ ~(store[b] < store[a])
            BY <1>2, <1>3, <3>1
        <3> QED BY <1>1, <3>2
    <2> HIDE DEF rank, Places
    <2> QED BY <2>1, <2>2, Fun_IsInj
<1>5. IsFiniteSet(Places) /\ Cardinality(Places) = Cardinality(D)
    <2>1. 0 \in Int /\ Cardinality(D) - 1 \in Int
        BY <1>1
    <2> QED BY <1>1, <2>1, FS_Interval
<1>6. \A p \in Places : \E id \in D : rank[id] = p
    <2>1. rank \in Surjection(D, Places)
        <3> HIDE DEF rank, Places
        <3> QED BY <1>4, <1>5, FS_Injection
    <2> HIDE DEF rank, Places
    <2> QED BY <2>1, Fun_SurjectionProperties
<1>7. Oldest(n) = {id \in D : rank[id] < n}
    BY DEF Oldest, Older
<1> DEFINE first == [id \in Oldest(n) |-> rank[id]]
<1>8. first \in [Oldest(n) -> 0..(n - 1)]
    BY <1>2, <1>7
<1>9. \A p \in 0..(n - 1) : \E id \in Oldest(n) : first[id] = p
    <2> SUFFICES ASSUME NEW p \in 0..(n - 1) PROVE \E id \in Oldest(n) : first[id] = p
        OBVIOUS
    <2>1. PICK id \in D : rank[id] = p
        BY <1>1, <1>6
    <2> QED BY <1>7, <2>1
<1>10. first \in Surjection(Oldest(n), 0..(n - 1))
    <2> HIDE DEF first
    <2> QED BY <1>8, <1>9, Fun_IsSurj
<1>11. IsFiniteSet(Oldest(n))
    BY <1>1, <1>7, FS_Subset
<1>12. Cardinality(0..(n - 1)) <= Cardinality(Oldest(n))
    <2> HIDE DEF first
    <2> QED BY <1>10, <1>11, FS_Surjection
<1>13. Cardinality(0..(n - 1)) = n
    <2>1. 0 \in Int /\ n - 1 \in Int
        OBVIOUS
    <2> QED BY <2>1, FS_Interval
<1> QED BY <1>7, <1>12, <1>13

\* Of the other entries those that are not older are newer.
LEMMA OlderOrNewer ==
    ASSUME CacheInv, NEW id \in DOMAIN store
    PROVE  /\ Cardinality(Older(id)) \in Nat /\ Cardinality(Newer(id)) \in Nat
           /\ Cardinality(DOMAIN store) = Cardinality(Older(id)) + Cardinality(Newer(id)) + 1
<1>1. /\ IsFiniteSet(DOMAIN store) /\ \A other \in DOMAIN store : store[other] \in Nat
      /\ \A a, b \in DOMAIN store : store[a] = store[b] => a = b
    BY DEF CacheInv, CacheTypeOK, StampsDiffer
<1>2. IsFiniteSet(Older(id)) /\ IsFiniteSet(Newer(id))
    BY <1>1, FS_Subset DEF Older, Newer
<1>3. /\ DOMAIN store = (Older(id) \cup Newer(id)) \cup {id}
      /\ Older(id) \cap Newer(id) = {} /\ id \notin Older(id) \cup Newer(id)
    BY <1>1 DEF Older, Newer
<1>4. /\ IsFiniteSet(Older(id) \cup Newer(id))
      /\ Cardinality(Older(id) \cup Newer(id)) =
            Cardinality(Older(id)) + Cardinality(Newer(id)) - Cardinality({})
    BY <1>2, <1>3, FS_Union
<1>5. Cardinality(DOMAIN store) = Cardinality(Older(id) \cup Newer(id)) + 1
    BY <1>3, <1>4, FS_AddElement
<1>6. Cardinality({}) = 0
    BY FS_EmptySet
<1>7. Cardinality(Older(id)) \in Nat /\ Cardinality(Newer(id)) \in Nat
    BY <1>2, FS_CardinalityType
<1> HIDE DEF Older, Newer
<1> QED BY <1>4, <1>5, <1>6, <1>7

Overdue == {w \in writes : w.stage \in {"prune", "dropped"}}

LEMMA CacheResultKeeps ==
    ASSUME CacheInv, NEW id \in Ids, CacheResult(id) PROVE CacheInv'
<1> DEFINE new == [id |-> id, time |-> now + 1, stage |-> "put"]
<1>1. /\ now' = now + 1 /\ writes' = writes \cup {new} /\ store' = store
      /\ new.time = now + 1 /\ new.stage = "put" /\ now \in Nat
    BY DEF CacheInv, CacheTypeOK, CacheResult
<1>2. CacheTypeOK' /\ IsFiniteSet(writes)' /\ IsFiniteSet(DOMAIN store)'
    <2>1. new \in [id : Ids, time : 1..now', stage : {"put", "prune", "dropped"}]
        BY <1>1
    <2>2. 1..now \subseteq 1..now' /\ now' \in Nat
        BY <1>1
    <2>3. \A w \in writes : w \in [id : Ids, time : 1..now', stage : {"put", "prune", "dropped"}]
        <3> SUFFICES ASSUME NEW w \in writes
                     PROVE w \in [id : Ids, time : 1..now', stage : {"put", "prune", "dropped"}]
            OBVIOUS
        <3>1. w \in [id : Ids, time : 1..now, stage : {"put", "prune", "dropped"}]
            BY DEF CacheInv, CacheTypeOK
        <3> QED BY <2>2, <3>1
    <2> HIDE DEF new
    <2>4. IsFiniteSet(writes')
        BY <1>1, FS_AddElement DEF CacheInv
    <2> QED BY <1>1, <2>1, <2>2, <2>3, <2>4 DEF CacheInv, CacheTypeOK
<1>3. StampsDiffer'
    <2>1. \A w \in writes : w.time \in Nat /\ w.time # now + 1
        BY <1>1 DEF CacheInv, CacheTypeOK
    <2>2. \A other \in DOMAIN store : store[other] # now + 1
        BY <1>1 DEF CacheInv, CacheTypeOK
    <2> HIDE DEF new
    <2> QED BY <1>1, <2>1, <2>2 DEF CacheInv, StampsDiffer
<1>4. OvershootIsBounded'
    <2>1. Overdue' = Overdue
        <3> HIDE DEF new
        <3> QED BY <1>1 DEF Overdue
    <2> QED BY <1>1, <2>1 DEF CacheInv, OvershootIsBounded, Overdue
<1> QED BY <1>2, <1>3, <1>4 DEF CacheInv

\* One write goes on to its next stage.
LEMMA WriteGoesOn ==
    ASSUME CacheInv, NEW write \in writes, NEW stage \in {"prune", "dropped"},
           Becomes(write, stage), UNCHANGED now
    PROVE  /\ writes' \subseteq [id : Ids, time : 1..now', stage : {"put", "prune", "dropped"}]
           /\ IsFiniteSet(writes')
           /\ \A v, w \in writes' : v.time = w.time => v = w
           /\ \A w \in writes' : w.stage = "put" => w \in writes /\ w # write
           /\ Cardinality(Overdue') =
                 IF write.stage = "put" THEN Cardinality(Overdue) + 1 ELSE Cardinality(Overdue)
           /\ Cardinality(Overdue) \in Nat
<1> DEFINE next == [write EXCEPT !.stage = stage]
           Typed == [id : Ids, time : 1..now, stage : {"put", "prune", "dropped"}]
<1>1. /\ writes' = (writes \ {write}) \cup {next} /\ now' = now
      /\ writes \subseteq Typed /\ IsFiniteSet(writes)
      /\ \A v, w \in writes : v.time = w.time => v = w
    BY DEF Becomes, CacheInv, CacheTypeOK, StampsDiffer
<1>2. next \in Typed /\ next.time = write.time /\ next.stage = stage /\ stage # "put"
    BY <1>1
<1> HIDE DEF next, Typed
<1>3. IsFiniteSet(writes \ {write}) /\ IsFiniteSet(writes')
    BY <1>1, FS_RemoveElement, FS_AddElement
<1>4. \A v, w \in writes' : v.time = w.time => v = w
    BY <1>1, <1>2
<1>5. \A w \in writes' : w.stage = "put" => w \in writes /\ w # write
    BY <1>1, <1>2
<1>6. IsFiniteSet(Overdue) /\ Cardinality(Overdue) \in Nat
    BY <1>1, FS_Subset, FS_CardinalityType DEF Overdue
<1>7. Overdue' = (Overdue \ {write}) \cup {next} /\ next \notin Overdue \ {write}
    BY <1>1, <1>2 DEF Overdue
<1>8. IsFiniteSet(Overdue \ {write})
      /\ Cardinality(Overdue \ {write}) =
            IF write \in Overdue THEN Cardinality(Overdue) - 1 ELSE Cardinality(Overdue)
    BY <1>6, FS_RemoveElement
<1>9. Cardinality(Overdue') = Cardinality(Overdue \ {write}) + 1
    BY <1>7, <1>8, FS_AddElement
<1>10. write \in Overdue <=> write.stage # "put"
    BY <1>1 DEF Overdue, Typed
<1> QED BY <1>1, <1>2, <1>3, <1>4, <1>5, <1>6, <1>8, <1>9, <1>10 DEF Typed

LEMMA PutKeeps ==
    ASSUME CacheInv, NEW write \in writes, Put(write) PROVE CacheInv'
<1>1. /\ write.stage = "put" /\ Becomes(write, "prune") /\ now' = now
      /\ store' = [id \in DOMAIN store \cup {write.id} |->
                      IF id = write.id THEN write.time ELSE store[id]]
      /\ write.id \in Ids /\ write.time \in 1..now
      /\ IsFiniteSet(DOMAIN store)
      /\ DOMAIN store \subseteq Ids /\ \A id \in DOMAIN store : store[id] \in 1..now
    BY DEF Put, CacheInv, CacheTypeOK
<1>2. /\ writes' \subseteq [id : Ids, time : 1..now', stage : {"put", "prune", "dropped"}]
      /\ IsFiniteSet(writes')
      /\ \A v, w \in writes' : v.time = w.time => v = w
      /\ \A w \in writes' : w.stage = "put" => w \in writes /\ w # write
      /\ Cardinality(Overdue') = Cardinality(Overdue) + 1
      /\ Cardinality(Overdue) \in Nat
    BY <1>1, WriteGoesOn
<1>3. /\ DOMAIN store' = DOMAIN store \cup {write.id}
      /\ \A id \in DOMAIN store' : store'[id] = IF id = write.id THEN write.time ELSE store[id]
    BY <1>1
<1>4. /\ IsFiniteSet(DOMAIN store')
      /\ Cardinality(DOMAIN store') <= Cardinality(DOMAIN store) + 1
      /\ Cardinality(DOMAIN store) \in Nat
    <2>1. /\ IsFiniteSet(DOMAIN store \cup {write.id})
          /\ Cardinality(DOMAIN store \cup {write.id}) =
                IF write.id \in DOMAIN store THEN Cardinality(DOMAIN store)
                ELSE Cardinality(DOMAIN store) + 1
        BY <1>1, FS_AddElement
    <2>2. Cardinality(DOMAIN store) \in Nat
        BY <1>1, FS_CardinalityType
    <2> QED BY <1>3, <2>1, <2>2
<1>5. CacheTypeOK'
    BY <1>1, <1>2, <1>3 DEF CacheInv, CacheTypeOK
<1>6. StampsDiffer'
    <2>1. \A a, b \in DOMAIN store' : store'[a] = store'[b] => a = b
        BY <1>1, <1>3 DEF CacheInv, StampsDiffer
    <2>2. \A w \in writes' : w.stage = "put" => \A id \in DOMAIN store' : store'[id] # w.time
        BY <1>2, <1>3 DEF CacheInv, StampsDiffer
    <2> QED BY <1>2, <2>1, <2>2 DEF StampsDiffer
<1>7. OvershootIsBounded'
    <2>1. Cardinality(DOMAIN store) <= MaxEntries + Cardinality(Overdue)
        BY DEF CacheInv, OvershootIsBounded, Overdue
    <2>2. Cardinality(DOMAIN store') <= MaxEntries + Cardinality(Overdue')
        <3>1. Cardinality(DOMAIN store') \in Nat
            BY <1>4, FS_CardinalityType
        <3> QED BY <1>2, <1>4, <2>1, <3>1, CacheAssumption
    <2> QED BY <2>2 DEF OvershootIsBounded, Overdue
<1> QED BY <1>2, <1>4, <1>5, <1>6, <1>7 DEF CacheInv

LEMMA DropKeeps ==
    ASSUME CacheInv, NEW write \in writes, Drop(write) PROVE CacheInv'
<1>1. CASE write.stage = "put"
    <2>1. writes' = writes \ {write} /\ UNCHANGED <<store, now>>
        BY <1>1 DEF Drop, Forget
    <2>2. IsFiniteSet(writes') /\ Overdue' = Overdue
        BY <1>1, <2>1, FS_RemoveElement DEF CacheInv, Overdue
    <2> QED BY <2>1, <2>2 DEF CacheInv, CacheTypeOK, StampsDiffer, OvershootIsBounded, Overdue
<1>2. CASE write.stage # "put"
    <2>1. Becomes(write, "dropped") /\ UNCHANGED <<store, now>>
        BY <1>2 DEF Drop
    <2>2. /\ writes' \subseteq [id : Ids, time : 1..now', stage : {"put", "prune", "dropped"}]
          /\ IsFiniteSet(writes')
          /\ \A v, w \in writes' : v.time = w.time => v = w
          /\ \A w \in writes' : w.stage = "put" => w \in writes /\ w # write
          /\ Cardinality(Overdue') = Cardinality(Overdue)
        BY <1>2, <2>1, WriteGoesOn
    <2>3. OvershootIsBounded'
        BY <2>1, <2>2 DEF CacheInv, OvershootIsBounded, Overdue
    <2> QED BY <2>1, <2>2, <2>3 DEF CacheInv, CacheTypeOK, StampsDiffer
<1> QED BY <1>1, <1>2

\* A prune leaves no more than MaxEntries entries, the newest.
LEMMA PruneRemoves ==
    ASSUME CacheInv, NEW write \in writes, Prune(write)
    PROVE  /\ Cardinality(DOMAIN store') <= MaxEntries
           /\ \A id \in DOMAIN store \ DOMAIN store' : Cardinality(Newer(id)) >= MaxEntries
<1>1. /\ Cardinality(DOMAIN store) \in Nat /\ IsFiniteSet(DOMAIN store) /\ MaxEntries \in Nat
      /\ DOMAIN store' = DOMAIN store \ Oldest(Excess)
    BY FS_CardinalityType, CacheAssumption DEF CacheInv, Prune
<1>2. Excess \in Nat /\ Excess <= Cardinality(DOMAIN store)
      /\ Cardinality(DOMAIN store) - Excess <= MaxEntries
      /\ (Excess # 0 => Cardinality(DOMAIN store) - Excess = MaxEntries)
    BY <1>1 DEF Excess
<1>3. Oldest(Excess) \subseteq DOMAIN store /\ Excess <= Cardinality(Oldest(Excess))
    BY <1>2, OldestCount
<1>4. Cardinality(DOMAIN store') = Cardinality(DOMAIN store) - Cardinality(Oldest(Excess))
    <2>1. Oldest(Excess) = DOMAIN store \cap Oldest(Excess)
        BY <1>3
    <2> QED BY <1>1, <2>1, FS_Difference
<1>5. Cardinality(Oldest(Excess)) \in Nat
    BY <1>1, <1>3, FS_Subset, FS_CardinalityType
<1>6. ASSUME NEW id \in DOMAIN store \ DOMAIN store' PROVE Cardinality(Newer(id)) >= MaxEntries
    <2>1. id \in DOMAIN store /\ Cardinality(Older(id)) < Excess
        BY <1>1, <1>6 DEF Oldest, Older
    <2> QED BY <1>1, <1>2, <2>1, OlderOrNewer
<1> QED BY <1>1, <1>2, <1>3, <1>4, <1>5, <1>6

LEMMA PruneKeeps ==
    ASSUME CacheInv, NEW write \in writes, Prune(write) PROVE CacheInv'
<1>1. /\ writes' = writes \ {write} /\ now' = now
      /\ DOMAIN store' \subseteq DOMAIN store /\ \A id \in DOMAIN store' : store'[id] = store[id]
    BY DEF Prune, Forget
<1>2. /\ IsFiniteSet(writes') /\ IsFiniteSet(DOMAIN store')
      /\ Cardinality(DOMAIN store') \in Nat
    BY <1>1, FS_RemoveElement, FS_Subset, FS_CardinalityType DEF CacheInv
<1>3. Cardinality(Overdue') \in Nat
    <2>1. Overdue' \in SUBSET writes'
        BY DEF Overdue
    <2> QED BY <1>2, <2>1, FS_Subset, FS_CardinalityType
<1>4. Cardinality(DOMAIN store') <= MaxEntries + Cardinality(Overdue')
    BY <1>2, <1>3, PruneRemoves, CacheAssumption
<1>5. CacheTypeOK' /\ StampsDiffer'
    BY <1>1 DEF CacheInv, CacheTypeOK, StampsDiffer
<1> QED BY <1>2, <1>4, <1>5 DEF CacheInv, OvershootIsBounded, Overdue

LEMMA CacheStep ==
    ASSUME CacheInv, ActionTypeOK, [FrontendNext]_frontend_vars
    PROVE  CacheInv'
<1>1. CASE UNCHANGED cache_vars
    BY <1>1 DEF cache_vars, CacheInv, CacheTypeOK, StampsDiffer, OvershootIsBounded
<1>2. ASSUME NEW id \in Ids, CacheResult(id) PROVE CacheInv'
    BY <1>2, CacheResultKeeps
<1>3. ASSUME NEW i \in 1..Latest, Succeed(i) PROVE CacheInv'
    <2>1. i \in 1..MaxRuns
        BY RunsAreTyped, RunsAssumption
    <2> QED BY <1>2, <1>3, <2>1, ViewAssumption DEF Succeed
<1>4. ASSUME NEW write \in writes, Put(write) \/ Prune(write) \/ Drop(write) PROVE CacheInv'
    BY <1>4, PutKeeps, PruneKeeps, DropKeeps
<1>5. CASE ViewNext
    BY <1>1, <1>2, <1>3, <1>4, <1>5 DEF ViewNext, Proceed, CacheNext
<1> QED
    BY <1>1, <1>5 DEF FrontendNext, frontend_vars, view_vars

\* Only a prune takes an entry out of the store.
LEMMA OnlyPrunesRemove ==
    ASSUME [FrontendNext]_frontend_vars, NEW id \in DOMAIN store \ DOMAIN store'
    PROVE  \E write \in writes : Prune(write)
<1>1. store' # store
    OBVIOUS
<1>2. CacheNext
    BY <1>1 DEF FrontendNext, frontend_vars, view_vars, cache_vars, ViewNext, Proceed, Succeed,
                CacheResult
<1>3. ASSUME NEW write \in writes, Put(write) PROVE FALSE
    BY <1>3 DEF Put
<1> QED BY <1>1, <1>2, <1>3 DEF CacheNext, CacheResult, Drop

LEMMA HookHolds == FrontendSpec => [](ActionInv /\ ShownInv)
BY FrontendRunsTheHook, ActionInvHolds, ShownInvHolds, PTL

LEMMA CacheInvHolds == FrontendSpec => []CacheInv
<1>1. FrontendInit => CacheInv
    <2> SUFFICES ASSUME FrontendInit PROVE CacheInv
        OBVIOUS
    <2>1. writes = {} /\ DOMAIN store = {} /\ now = 0
        BY DEF FrontendInit, ViewInit, CacheInit
    <2>2. Cardinality(DOMAIN store) = 0 /\ IsFiniteSet({}) /\ Overdue = {} /\ Cardinality({}) = 0
        BY <2>1, FS_EmptySet DEF Overdue
    <2>3. OvershootIsBounded
        BY <2>1, <2>2, CacheAssumption DEF OvershootIsBounded, Overdue
    <2> QED BY <2>1, <2>2, <2>3 DEF CacheInv, CacheTypeOK, StampsDiffer
<1>2. ActionInv => ActionTypeOK
    BY DEF ActionInv
<1> QED BY <1>1, <1>2, HookHolds, CacheStep, PTL DEF FrontendSpec

\* However many views and tabs put entries and prune, the cache exceeds its
\* limit by no more than the entries whose prune is to come or was lost
\* (cache.ts).
THEOREM OvershootStaysBounded == FrontendSpec => []OvershootIsBounded
BY CacheInvHolds, PTL DEF CacheInv

\* A prune evicts none of the MaxEntries newest entries.
THEOREM NewestEntriesSurvive == FrontendSpec => NewestSurvive
<1> DEFINE Evicts ==
        \A id \in DOMAIN store \ DOMAIN store' :
            Cardinality({other \in DOMAIN store : store[other] > store[id]}) >= MaxEntries
<1>1. CacheInv /\ [FrontendNext]_frontend_vars => [Evicts]_cache_vars
    BY OnlyPrunesRemove, PruneRemoves DEF Newer
<1> QED BY <1>1, CacheInvHolds, PTL DEF FrontendSpec, NewestSurvive

----------------------------------------------------------------------------
(***************************************************************************)
(* The upload view.  While the line says "Extracting", the card is that of *)
(* the latest upload, whose request has ended.                             *)
(***************************************************************************)
LineInv ==
    /\ UploadTypeOK /\ Len(extractions) <= MaxClicks
    /\ graph_status.says = "extracting" =>
          /\ graph_status.of = Len(extractions) /\ extractions # <<>>
          /\ extractions[graph_status.of].ended_in = None
          /\ extractions[graph_status.of].document = Latest
          /\ ~InFlight(Latest)
    /\ graph_status.says = "outcome" =>
          graph_status.of \in DOMAIN extractions /\ extractions[graph_status.of].ended_in = Latest

\* The parts that are not followed stand still.
PartInv == part \in Parts /\ (part # "upload" => graph_status = Line("nothing", None))

LEMMA ExtractGraphKeeps ==
    ASSUME ActionInv, ShownInv, LineInv, HandleExtractGraph PROVE LineInv'
<1> DEFINE new == [document |-> shown.data, ended_in |-> None]
           Extraction == [document : Ingested, ended_in : 0..MaxRuns]
<1>1. /\ extractions \in Seq(Extraction) /\ Len(extractions) < MaxClicks
      /\ extractions' = Append(extractions, new)
      /\ graph_status' = Line("extracting", Len(extractions'))
      /\ UNCHANGED action_vars
    BY DEF LineInv, UploadTypeOK, HandleExtractGraph
<1>2. new \in Extraction /\ new.ended_in = None /\ new.document = shown.data
    BY RunsAssumption DEF HandleExtractGraph, Card, None
<1>3. shown.data # None /\ shown.data = Latest /\ ~InFlight(Latest)
    BY UploadAssumption DEF HandleExtractGraph, Card, ActionInv, DataIsLatest, ShownInv
<1> HIDE DEF new, Extraction
<1>4. /\ extractions' \in Seq(Extraction) /\ Len(extractions') = Len(extractions) + 1
      /\ extractions'[Len(extractions')] = new /\ Len(extractions) \in Nat
      /\ extractions' # <<>>
    BY <1>1, <1>2
<1>5. graph_status'.says = "extracting" /\ graph_status'.of = Len(extractions')
    BY <1>1 DEF Line
<1>6. UploadTypeOK'
    <2>1. Len(extractions') \in 0..MaxClicks
        BY <1>1, <1>4, UploadAssumption
    <2> QED BY <1>1, <1>4, <2>1 DEF UploadTypeOK, Extraction, Line
<1>7. Latest' = Latest /\ InFlight(Latest)' = InFlight(Latest)
    BY <1>1 DEF action_vars, Latest, InFlight
<1>8. Len(extractions') <= MaxClicks
    BY <1>1, <1>4, UploadAssumption
<1> QED BY <1>2, <1>3, <1>4, <1>5, <1>6, <1>7, <1>8 DEF LineInv

LEMMA ExtractionEndsKeeps ==
    ASSUME ActionInv, LineInv, NEW k \in DOMAIN extractions, ExtractionEnds(k) PROVE LineInv'
<1> DEFINE Extraction == [document : Ingested, ended_in : 0..MaxRuns]
           ended == [extractions[k] EXCEPT !.ended_in = Latest]
<1>1. /\ extractions \in Seq(Extraction) /\ extractions[k] \in Extraction
      /\ k \in 1..Len(extractions) /\ Len(extractions) \in Nat
      /\ graph_status' = Line("outcome", k) /\ UNCHANGED action_vars
    <2>1. extractions \in Seq(Extraction)
        BY DEF LineInv, UploadTypeOK
    <2> HIDE DEF Extraction
    <2>2. /\ extractions[k] \in Extraction /\ k \in 1..Len(extractions)
          /\ Len(extractions) \in Nat
        BY <2>1
    <2> QED BY <2>1, <2>2 DEF ExtractionEnds, Outcome
<1>2. extractions' = [extractions EXCEPT ![k] = ended]
    BY <1>1 DEF ExtractionEnds
<1>3. ended \in Extraction /\ ended.ended_in = Latest
    BY <1>1, RunsAreTyped DEF ActionInv
<1> HIDE DEF ended, Extraction
<1>4. extractions' \in Seq(Extraction) /\ extractions'[k] = ended /\ k \in DOMAIN extractions'
    BY <1>1, <1>2, <1>3
<1>5. graph_status'.says = "outcome" /\ graph_status'.of = k
    BY <1>1 DEF Line
<1>6. Len(extractions') = Len(extractions) /\ Len(extractions) <= MaxClicks
    BY <1>1, <1>2, <1>4 DEF LineInv
<1>7. UploadTypeOK'
    <2>1. k \in 0..MaxClicks
        BY <1>1, <1>6, UploadAssumption
    <2> QED BY <1>1, <1>4, <2>1 DEF UploadTypeOK, Extraction, Line
<1>8. Latest' = Latest
    BY <1>1 DEF action_vars, Latest
<1> QED BY <1>3, <1>4, <1>5, <1>6, <1>7, <1>8 DEF LineInv

LEMMA LineStep ==
    ASSUME ActionInv, ShownInv, LineInv, PartInv, [FrontendNext]_frontend_vars
    PROVE  LineInv' /\ PartInv'
<1>1. CASE UNCHANGED <<part, upload_vars, action_vars>>
    <2>1. Latest' = Latest /\ InFlight(Latest)' = InFlight(Latest)
        BY <1>1 DEF action_vars, Latest, InFlight
    <2> QED BY <1>1, <2>1 DEF upload_vars, LineInv, UploadTypeOK, PartInv
<1>2. CASE part # "upload" /\ UNCHANGED <<part, upload_vars>>
    BY <1>2 DEF upload_vars, LineInv, UploadTypeOK, PartInv, Line
<1>3. CASE UploadNext /\ part = "upload" /\ UNCHANGED part
    <2>1. ASSUME HandleSubmit PROVE LineInv'
        <3>1. graph_status' = Line("nothing", None) /\ extractions' = extractions
            BY <2>1 DEF HandleSubmit
        <3>2. None \in 0..MaxClicks
            BY UploadAssumption DEF None
        <3>3. /\ graph_status'.says = "nothing"
              /\ graph_status' \in [says : {"nothing", "extracting", "outcome"}, of : 0..MaxClicks]
            BY <3>1, <3>2 DEF Line
        <3> QED BY <3>1, <3>3 DEF LineInv, UploadTypeOK
    <2>2. ASSUME HandleExtractGraph PROVE LineInv'
        BY <2>2, ExtractGraphKeeps
    <2>3. ASSUME NEW k \in DOMAIN extractions, ExtractionEnds(k) PROVE LineInv'
        BY <2>3, ExtractionEndsKeeps
    <2>4. ASSUME Cancel, UNCHANGED upload_vars PROVE LineInv'
        <3>1. InFlight(Latest) /\ runs \in Seq(ActionRun) /\ Latest' = Latest
            BY <2>4, RunsAreTyped DEF Cancel, ActionInv, SpinnerIsHonest, Latest
        <3> QED BY <2>4, <3>1 DEF upload_vars, LineInv, UploadTypeOK
    <2>5. ASSUME NEW i \in 1..Latest, Answers(i), UNCHANGED upload_vars PROVE LineInv'
        <3>1. /\ Latest' = Latest /\ InFlight(i)
              /\ \A j \in 1..Latest : j # i => runs'[j] = runs[j]
            BY <2>5, ResponsesAbortNothing DEF ActionInv
        <3>2. Latest \in 1..Latest
            BY RunsAreTyped, RunsAssumption DEF ActionInv
        <3>3. ~InFlight(Latest) => ~InFlight(Latest)'
            BY <3>1, <3>2 DEF InFlight
        <3> QED BY <2>5, <3>1, <3>3 DEF upload_vars, LineInv, UploadTypeOK
    <2> QED BY <1>3, <2>1, <2>2, <2>3, <2>4, <2>5 DEF UploadNext, PartInv
<1> QED
    BY <1>1, <1>2, <1>3 DEF FrontendNext, frontend_vars, view_vars, PartInv

LEMMA LineInvHolds == FrontendSpec => [](LineInv /\ PartInv)
<1>1. FrontendInit => LineInv /\ PartInv
    <2> SUFFICES ASSUME FrontendInit PROVE LineInv /\ PartInv
        OBVIOUS
    <2>1. graph_status = Line("nothing", None) /\ extractions = <<>> /\ part \in Parts
        BY DEF FrontendInit, UploadInit
    <2>2. None \in 0..MaxClicks
        BY UploadAssumption DEF None
    <2> QED BY <2>1, <2>2, UploadAssumption DEF LineInv, UploadTypeOK, PartInv, Line
<1> QED BY <1>1, LineStep, HookHolds, PTL DEF FrontendSpec

\* The status line says "Extracting" of the document on the card, and gives
\* no outcome from before the card's upload (UploadView.tsx).
THEOREM StatusStaysCurrent == FrontendSpec => []StatusIsCurrent
<1>1. ActionInv /\ LineInv => StatusIsCurrent
    <2> SUFFICES ASSUME ActionInv, LineInv PROVE StatusIsCurrent
        OBVIOUS
    <2>1. Card => shown.data = Latest
        BY UploadAssumption DEF Card, ActionInv, DataIsLatest
    <2> QED BY <2>1 DEF LineInv, StatusIsCurrent
<1> QED BY <1>1, LineInvHolds, HookHolds, PTL

----------------------------------------------------------------------------
(***************************************************************************)
(* The service worker.  Once active it has a shell, which never changes,   *)
(* and only an active worker serves pages.                                 *)
(***************************************************************************)
ShellInv ==
    /\ WorkerTypeOK
    /\ worker = "active" => shell # Uncached
    /\ page.by_worker =>
          worker = "active" /\ page.controlled /\ page.build = shell
    /\ ControlledPagesReload

LEMMA ShellStep ==
    ASSUME ShellInv, [FrontendNext]_frontend_vars PROVE ShellInv'
<1>1. CASE UNCHANGED worker_vars
    BY <1>1 DEF worker_vars, ShellInv, WorkerTypeOK, ControlledPagesReload
<1>2. CASE Environment
    BY <1>2 DEF Environment, ShellInv, WorkerTypeOK, ControlledPagesReload
<1>3. CASE Navigate
    <2>1. Root \in Deployments \cup {Uncached} /\ (worker = "active" => Root = shell)
        BY DEF Root, FromNetwork, ShellInv, WorkerTypeOK
    <2>2. /\ page' \in Pages /\ page'.stage \in {"failed", "html"}
          /\ page'.by_worker = (worker = "active") /\ page'.controlled = (worker = "active")
          /\ page'.build = Root
        BY <1>3, <2>1 DEF Navigate, Pages
    <2> QED BY <1>3, <2>1, <2>2 DEF Navigate, ShellInv, WorkerTypeOK, ControlledPagesReload
<1>4. CASE LoadAssets
    <2>1. /\ page \in Pages /\ page.stage = "html"
          /\ page' = [page EXCEPT !.stage = IF Served \/ Reachable THEN "running" ELSE "blank"]
        BY <1>4 DEF LoadAssets, ShellInv, WorkerTypeOK
    <2>2. /\ page' \in Pages /\ page'.by_worker = page.by_worker
          /\ page'.controlled = page.controlled /\ page'.build = page.build
          /\ page'.stage = "running" => Served \/ Reachable
        BY <2>1 DEF Pages
    <2>3. UNCHANGED <<deployed, online, worker, shell, assets, lost>>
        BY <1>4 DEF LoadAssets
    <2>4. puts \subseteq puts' /\ puts' \subseteq Deployments
        BY <1>4, <2>1 DEF LoadAssets, Reachable, ShellInv, WorkerTypeOK
    <2>5. page.by_worker /\ page'.stage = "running" => shell \in assets \cup puts'
        BY <1>4, <2>2 DEF LoadAssets, Served, ShellInv
    <2> QED BY <2>2, <2>3, <2>4, <2>5 DEF ShellInv, WorkerTypeOK, ControlledPagesReload
<1>5. ASSUME NEW build \in Deployments, AssetsPut(build) PROVE ShellInv'
    BY <1>5 DEF AssetsPut, ShellInv, WorkerTypeOK, ControlledPagesReload
<1>6. CASE RegisterServiceWorker
    BY <1>6 DEF RegisterServiceWorker, ShellInv, WorkerTypeOK, ControlledPagesReload
<1>7. CASE Install
    <2>1. ~page.by_worker /\ page \in Pages
        BY <1>7 DEF Install, ShellInv, WorkerTypeOK
    <2>2. page' \in Pages /\ ~page'.by_worker
        BY <1>7, <2>1 DEF Install, Pages
    <2>3. deployed # Uncached
        BY DeploymentsAssumption DEF ShellInv, WorkerTypeOK, Uncached
    <2> QED BY <1>7, <2>2, <2>3 DEF Install, ShellInv, WorkerTypeOK, ControlledPagesReload
<1> QED
    BY <1>1, <1>2, <1>3, <1>4, <1>5, <1>6, <1>7
    DEF FrontendNext, frontend_vars, WorkerNext

\* A page that came from the worker and runs is the one a reload gives, and
\* its assets are cached, on their way, or were lost with their put (sw.js),
\* however often the network goes and the frontend is deployed anew.
THEOREM ServedPagesReload == FrontendSpec => []ControlledPagesReload
<1>1. FrontendInit => ShellInv
    BY DeploymentsAssumption
    DEF FrontendInit, WorkerInit, ShellInv, WorkerTypeOK, Pages, ControlledPagesReload, Uncached
<1>2. ShellInv => ControlledPagesReload
    BY DEF ShellInv
<1> QED BY <1>1, <1>2, ShellStep, PTL DEF FrontendSpec
===============================================================================
