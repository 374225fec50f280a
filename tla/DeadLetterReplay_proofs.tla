----------------------- MODULE DeadLetterReplay_proofs -----------------------
(***************************************************************************)
(* Theorems about DeadLetterReplay, for any topic, any number of operators *)
(* and keys, any bounds and any clocks.                                    *)
(***************************************************************************)
EXTENDS DeadLetterReplay, SequenceTheorems, TLAPS

-----------------------------------------------------------------------------
(* Attempts *)

\* Setting the status of one attempt touches nothing else.
LEMMA StatusEffect ==
  ASSUME attempts \in Seq(Attempt), NEW a \in DOMAIN attempts, NEW s \in Statuses
  PROVE  LET as == [attempts EXCEPT ![a].status = s]
         IN  /\ as \in Seq(Attempt) /\ Len(as) = Len(attempts)
             /\ DOMAIN as = DOMAIN attempts
             /\ \A b \in DOMAIN attempts : b # a => as[b] = attempts[b]
             /\ as[a].letter = attempts[a].letter
             /\ as[a].status = s
  <1> DEFINE as == [attempts EXCEPT ![a].status = s]
             new == [attempts[a] EXCEPT !.status = s]
  <1>1. attempts[a] \in Attempt
    BY ElementOfSeq
  <1>2. new \in Attempt /\ new.letter = attempts[a].letter /\ new.status = s
    BY <1>1 DEF Attempt
  <1>3. as = [attempts EXCEPT ![a] = new]
    OBVIOUS
  <1>4. as \in Seq(Attempt) /\ Len(as) = Len(attempts)
    BY <1>2, <1>3, ExceptSeq
  <1>5. as[a] = new /\ \A b \in DOMAIN attempts : b # a => as[b] = attempts[b]
    BY <1>3
  <1> QED
    BY <1>2, <1>4, <1>5

\* Giving up an attempt ends it if it was in progress, and changes nothing else.
LEMMA LostEffect ==
  ASSUME attempts \in Seq(Attempt), NEW a
  PROVE  LET as == Lost(attempts, a)
         IN  /\ as \in Seq(Attempt) /\ Len(as) = Len(attempts)
             /\ DOMAIN as = DOMAIN attempts
             /\ \A b \in DOMAIN attempts :
                  /\ as[b].letter = attempts[b].letter
                  /\ b # a \/ attempts[b].status # "IN_PROGRESS" => as[b] = attempts[b]
                  /\ b = a => as[b].status # "IN_PROGRESS"
                  /\ as[b].status = "APPLIED" => attempts[b].status = "APPLIED"
  <1>1. CASE a \in DOMAIN attempts /\ attempts[a].status = "IN_PROGRESS"
    <2>1. Lost(attempts, a) = [attempts EXCEPT ![a].status = "LOST_OWNERSHIP"]
      BY <1>1 DEF Lost
    <2>2. "LOST_OWNERSHIP" \in Statuses
      BY DEF Statuses
    <2> QED
      BY <1>1, <2>1, <2>2, StatusEffect
  <1>2. CASE ~(a \in DOMAIN attempts /\ attempts[a].status = "IN_PROGRESS")
    <2>1. Lost(attempts, a) = attempts
      BY <1>2 DEF Lost
    <2> QED
      BY <1>2, <2>1
  <1> QED
    BY <1>1, <1>2

-----------------------------------------------------------------------------
(* The inductive invariant *)

\* The tokens of letters and of invocations are those of attempts at the letter,
\* and only decodable records are attempted.
TokensOK ==
    /\ \A l \in Offsets : row[l].token # 0 =>
         row[l].token \in DOMAIN attempts /\ attempts[row[l].token].letter = l
    /\ \A o \in Operators : proc[o].pc # "idle" => proc[o].attempt \in DOMAIN attempts
    /\ \A a \in DOMAIN attempts : Topic[attempts[a].letter] # 0

\* Between its reads and its commit an invocation owns its letter, and alone.
LocksOK ==
    /\ \A o \in Operators : proc[o].pc \in InTX2 =>
         /\ attempts[proc[o].attempt].status = "IN_PROGRESS"
         /\ row[Letter(o)].state = "REPLAYING"
         /\ row[Letter(o)].token = proc[o].attempt
    /\ \A o, q \in Operators :
         proc[o].pc \in InTX2 /\ proc[q].pc \in InTX2 /\ Letter(o) = Letter(q) => o = q

Inv == TypeOK /\ TokensOK /\ LocksOK /\ InProgressHoldsToken /\ AppliedOnce

\* What SettledIsFinal says of one step.
Final ==
    /\ \A a \in DOMAIN attempts :
         attempts[a].status # "IN_PROGRESS" => attempts'[a] = attempts[a]
    /\ \A l \in Offsets :
         row[l].state \in {"REPLAYED_APPLIED", "REPLAYED_DUPLICATE"} => row'[l] = row[l]

\* Every attempt is at an offset that holds an event.
LEMMA AttemptTyped ==
  ASSUME Inv
  PROVE  /\ DOMAIN attempts = 1 .. Len(attempts) /\ Len(attempts) \in Nat
         /\ \A a \in DOMAIN attempts :
              /\ attempts[a] \in Attempt
              /\ attempts[a].letter \in Offsets /\ attempts[a].letter # 0
              /\ Topic[attempts[a].letter] \in 1 .. LastEvent
  <1>1. DOMAIN attempts = 1 .. Len(attempts) /\ Len(attempts) \in Nat
    BY LenProperties DEF Inv, TypeOK
  <1>2. ASSUME NEW a \in DOMAIN attempts
        PROVE  /\ attempts[a] \in Attempt
               /\ attempts[a].letter \in Offsets /\ attempts[a].letter # 0
               /\ Topic[attempts[a].letter] \in 1 .. LastEvent
    <2>1. attempts[a] \in Attempt
      BY <1>1, ElementOfSeq DEF Inv, TypeOK
    <2>2. attempts[a].letter \in 1 .. Len(Topic) /\ Len(Topic) \in Nat
      BY <2>1, ReplayAssumption, LenProperties DEF Attempt, Offsets
    <2>3. Topic[attempts[a].letter] \in 0 .. LastEvent
      BY <2>2, ReplayAssumption, ElementOfSeq
    <2> QED
      BY <2>1, <2>2, <2>3, ReplayAssumption DEF Inv, TokensOK, Offsets
  <1> QED
    BY <1>1, <1>2

\* Initially nothing was claimed or applied.
LEMMA InitInv == Init => Inv
  <1> SUFFICES ASSUME Init PROVE Inv
    OBVIOUS
  <1>1. attempts = <<>> /\ DOMAIN attempts = {} /\ Len(attempts) = 0
    BY DEF Init
  <1>2. TypeOK
    <2>1. attempts \in Seq(Attempt)
      BY <1>1
    <2>2. NoRow \in DeadLetterRow /\ Idle \in Invocation
      BY ReplayAssumption DEF NoRow, Idle, DeadLetterRow, Invocation, States
    <2>3. Len(Topic) \in Nat
      BY ReplayAssumption, LenProperties
    <2> QED
      BY <1>1, <2>1, <2>2, <2>3, ReplayAssumption DEF Init, TypeOK, NoRow, Offsets
  <1>3. TokensOK
    BY <1>1 DEF Init, TokensOK, NoRow, Idle
  <1>4. LocksOK
    BY DEF Init, LocksOK, Idle, InTX2
  <1>5. InProgressHoldsToken /\ AppliedOnce
    BY <1>1 DEF InProgressHoldsToken, AppliedOnce
  <1> QED
    BY <1>2, <1>3, <1>4, <1>5 DEF Inv

-----------------------------------------------------------------------------
(* Steps that leave the attempts and the claims alone *)

\* A step that only moves invocations, none of them into TX2's second half.
LEMMA ProcStep ==
  ASSUME Inv, NEW o \in Operators, NEW p \in Invocation, Step(o, p),
         p.pc \in {"idle", "failed"},
         p.pc # "idle" => p.attempt = proc[o].attempt /\ proc[o].pc # "idle",
         UNCHANGED <<read, inbox, projection, row, attempts>>, faults' \in Nat
  PROVE  Inv' /\ Final
  <1> USE DEF Inv
  <1>1. /\ proc' \in [Operators -> Invocation]
        /\ proc'[o] = p /\ \A q \in Operators : q # o => proc'[q] = proc[q]
    BY DEF Step, TypeOK
  <1>2. TypeOK'
    BY <1>1 DEF TypeOK
  <1>3. TokensOK'
    BY <1>1 DEF TokensOK
  <1>4. LocksOK'
    BY <1>1 DEF LocksOK, Letter, InTX2
  <1>5. InProgressHoldsToken' /\ AppliedOnce' /\ Final
    BY DEF InProgressHoldsToken, AppliedOnce, Final
  <1> QED
    BY <1>2, <1>3, <1>4, <1>5

\* The consumer creates letters without a claim and applies only what is new.
LEMMA ConsumeStep == ASSUME Inv, NEW x \in Offsets, Consume(x) PROVE Inv' /\ Final
  <1> DEFINE e == Topic[x]
  <1> USE DEF Inv
  <1>1. e \in 0 .. LastEvent /\ x \in 1 .. Len(Topic) /\ Len(Topic) \in Nat
    BY ReplayAssumption, ElementOfSeq, LenProperties DEF Offsets
  <1>2. read' \in 0 .. Len(Topic) /\ UNCHANGED <<attempts, proc, faults>>
    BY <1>1 DEF Consume, TypeOK
  <1>3. CASE UNCHANGED <<inbox, projection, row>>
    BY <1>2, <1>3 DEF TypeOK, TokensOK, LocksOK, Letter, InProgressHoldsToken, AppliedOnce, Final
  <1>4. CASE /\ e # 0 /\ inbox[e] = 0
             /\ inbox' = [inbox EXCEPT ![e] = x] /\ projection' = e
             /\ UNCHANGED row
    <2>1. TypeOK'
      BY <1>1, <1>2, <1>4 DEF TypeOK
    <2>2. \A c \in 1 .. LastEvent : inbox[c] # 0 => inbox'[c] = inbox[c]
      BY <1>1, <1>4 DEF TypeOK
    <2>3. \A a \in DOMAIN attempts :
            Topic[attempts[a].letter] \in 1 .. LastEvent /\ attempts[a].letter # 0
      BY AttemptTyped
    <2>4. AppliedOnce'
      BY <1>2, <1>4, <2>2, <2>3 DEF AppliedOnce
    <2> QED
      BY <1>2, <1>4, <2>1, <2>4 DEF TokensOK, LocksOK, Letter, InProgressHoldsToken, Final
  <1>5. CASE /\ e # 0 => Refuses
             /\ UNCHANGED <<inbox, projection>>
             /\ row[x].state = "absent"
             /\ \E eligible \in BOOLEAN :
                  /\ e = 0 => ~eligible
                  /\ row' = [row EXCEPT ![x] = [state |-> "PENDING", eligible |-> eligible,
                                                token |-> 0]]
    <2> PICK eligible \in BOOLEAN :
             /\ e = 0 => ~eligible
             /\ row' = [row EXCEPT ![x] = [state |-> "PENDING", eligible |-> eligible,
                                           token |-> 0]]
      BY <1>5
    <2> DEFINE r == [state |-> "PENDING", eligible |-> eligible, token |-> 0]
    <2>1. r \in DeadLetterRow /\ r.state = "PENDING" /\ r.token = 0 /\ r.eligible = eligible
      BY ReplayAssumption DEF DeadLetterRow, States
    <2>2. /\ row' \in [Offsets -> DeadLetterRow]
          /\ row'[x] = r /\ \A l \in Offsets : l # x => row'[l] = row[l]
      BY <2>1 DEF TypeOK
    <2> HIDE DEF r
    <2>3. TypeOK'
      BY <1>2, <1>5, <2>1, <2>2 DEF TypeOK
    <2>4. TokensOK'
      BY <1>2, <2>1, <2>2 DEF TokensOK
    <2>5. \A a \in DOMAIN attempts : attempts[a].letter \in Offsets
      BY AttemptTyped
    <2>6. row[x].token = 0
      BY <1>5 DEF TypeOK
    <2>7. LocksOK'
      BY <1>2, <1>5, <2>2, <2>5, <2>6 DEF LocksOK, Letter, TokensOK
    <2>8. InProgressHoldsToken' /\ AppliedOnce'
      BY <1>2, <1>5, <2>2, <2>5 DEF InProgressHoldsToken, AppliedOnce
    <2>9. Final
      BY <1>2, <1>5, <2>2 DEF Final
    <2> QED
      BY <2>3, <2>4, <2>7, <2>8, <2>9
  <1>6. CASE /\ e # 0 => Refuses
             /\ UNCHANGED <<inbox, projection>>
             /\ row' \in {IF row[x].state = "absent"
                          THEN [row EXCEPT ![x] = [state |-> "PENDING", eligible |-> eligible,
                                                   token |-> 0]]
                          ELSE row : eligible \in IF e = 0 THEN {FALSE} ELSE BOOLEAN}
    <2>1. CASE row[x].state = "absent"
      <3>1. PICK eligible \in IF e = 0 THEN {FALSE} ELSE BOOLEAN :
              row' = [row EXCEPT ![x] = [state |-> "PENDING", eligible |-> eligible, token |-> 0]]
        BY <1>6, <2>1
      <3>2. eligible \in BOOLEAN /\ (e = 0 => ~eligible)
        BY <3>1
      <3> QED
        BY <1>5, <1>6, <2>1, <3>1, <3>2
    <2>2. CASE row[x].state # "absent"
      <3>1. row' = row
        BY <1>6, <2>2
      <3> QED
        BY <1>3, <1>6, <3>1
    <2> QED
      BY <2>1, <2>2
  <1> QED
    BY <1>3, <1>4, <1>6 DEF Consume

\* A correction changes only the projection.
LEMMA CorrectStep == ASSUME Inv, Correct PROVE Inv' /\ Final
  <1> USE DEF Inv
  <1>1. TypeOK'
    BY ReplayAssumption DEF Correct, Fault, TypeOK
  <1> QED
    BY <1>1 DEF Correct, TokensOK, LocksOK, Letter, InProgressHoldsToken, AppliedOnce, Final

-----------------------------------------------------------------------------
(* Steps that give up, settle or create an attempt *)

\* An attempt at a letter that nobody has locked is given up, by the invocation
\* that made it or by another.
LEMMA LostStep ==
  ASSUME Inv, NEW a \in DOMAIN attempts, ~Locked(attempts[a].letter),
         attempts' = Lost(attempts, a),
         \/ UNCHANGED proc
         \/ \E o \in Operators : Step(o, Idle),
         UNCHANGED <<read, inbox, projection, row, faults>>
  PROVE  Inv' /\ Final
  <1> USE DEF Inv
  <1>1. /\ attempts' \in Seq(Attempt) /\ Len(attempts') = Len(attempts)
        /\ DOMAIN attempts' = DOMAIN attempts
        /\ \A b \in DOMAIN attempts :
             /\ attempts'[b].letter = attempts[b].letter
             /\ b # a \/ attempts[b].status # "IN_PROGRESS" => attempts'[b] = attempts[b]
             /\ b = a => attempts'[b].status # "IN_PROGRESS"
             /\ attempts'[b].status = "APPLIED" => attempts[b].status = "APPLIED"
    BY LostEffect DEF TypeOK
  <1>2. /\ proc' \in [Operators -> Invocation]
        /\ \A q \in Operators : proc'[q] = proc[q] \/ proc'[q].pc = "idle"
    <2>1. Idle \in Invocation /\ Idle.pc = "idle"
      BY ReplayAssumption DEF Idle, Invocation
    <2> QED
      BY <2>1 DEF Step, TypeOK
  <1>3. TypeOK'
    BY <1>1, <1>2 DEF TypeOK
  <1>4. TokensOK'
    BY <1>1, <1>2 DEF TokensOK
  <1>5. \A q \in Operators : proc'[q].pc \in InTX2 =>
          /\ proc'[q] = proc[q] /\ proc[q].attempt \in DOMAIN attempts /\ proc[q].attempt # a
    BY <1>2 DEF Locked, TokensOK, InTX2
  <1>6. LocksOK'
    BY <1>1, <1>5 DEF LocksOK, Letter
  <1>7. InProgressHoldsToken'
    BY <1>1 DEF InProgressHoldsToken
  <1>8. AppliedOnce'
    BY <1>1 DEF AppliedOnce
  <1>9. Final
    BY <1>1 DEF Final
  <1> QED
    BY <1>3, <1>4, <1>6, <1>7, <1>8, <1>9

\* A letter gets a new state and a new token.
RowMoves(l, state, token) == row' = [row EXCEPT ![l].state = state, ![l].token = token]

\* Setting the state and the token of one letter touches nothing else.
LEMMA RowEffect ==
  ASSUME TypeOK, NEW l \in Offsets, NEW state \in States, NEW token \in 0 .. MaxReplays,
         RowMoves(l, state, token)
  PROVE  /\ row' \in [Offsets -> DeadLetterRow]
         /\ row'[l].state = state /\ row'[l].token = token
         /\ row'[l].eligible = row[l].eligible
         /\ \A k \in Offsets : k # l => row'[k] = row[k]
  <1> DEFINE r == [row[l] EXCEPT !.state = state, !.token = token]
  <1>1. row[l] \in DeadLetterRow /\ row \in [Offsets -> DeadLetterRow]
    BY DEF TypeOK
  <1>2. r \in DeadLetterRow /\ r.state = state /\ r.token = token /\ r.eligible = row[l].eligible
    BY <1>1 DEF DeadLetterRow
  <1>3. row' = [row EXCEPT ![l] = r]
    BY <1>1 DEF RowMoves
  <1> HIDE DEF r
  <1> QED
    BY <1>1, <1>2, <1>3

\* Settling a letter gives its claim up.
LEMMA SettledRow ==
  ASSUME TypeOK, NEW o, NEW l \in Offsets, Letter(o) = l, NEW status, NEW state \in States,
         Settled(o, status, state)
  PROVE  /\ row' \in [Offsets -> DeadLetterRow]
         /\ row'[l].state = state /\ row'[l].token = 0 /\ row'[l].eligible = row[l].eligible
         /\ \A k \in Offsets : k # l => row'[k] = row[k]
  <1>1. 0 \in 0 .. MaxReplays
    BY ReplayAssumption
  <1>2. RowMoves(l, state, 0)
    BY Zenon DEF Settled, RowMoves
  <1> QED
    BY <1>1, <1>2, RowEffect

\* The inbox only gets new entries.
InboxGrows ==
    /\ inbox' \in [1 .. LastEvent -> 0 .. Len(Topic)]
    /\ \A c \in 1 .. LastEvent : inbox[c] # 0 => inbox'[c] = inbox[c]

\* Nobody else is in TX2's second half at letter l.
AloneAt(o, l) == \A q \in Operators : q # o /\ proc[q].pc \in InTX2 => Letter(q) # l

\* An event that is applied by a replay is in the inbox from its letter.
LEMMA InboxEffect ==
  ASSUME TypeOK, NEW l \in Offsets, NEW e \in 1 .. LastEvent,
         inbox[e] = 0, inbox' = [inbox EXCEPT ![e] = l]
  PROVE  InboxGrows /\ inbox'[e] = l
  <1>1. l \in 0 .. Len(Topic) /\ inbox \in [1 .. LastEvent -> 0 .. Len(Topic)]
    BY ReplayAssumption, LenProperties DEF TypeOK, Offsets
  <1> QED
    BY <1>1 DEF InboxGrows

\* The attempt a, alone in progress at its letter l, is settled together with l.
LEMMA SettleStep ==
  ASSUME Inv, NEW o \in Operators, NEW a, NEW l, NEW e,
         proc[o].pc # "idle", a = proc[o].attempt, l = attempts[a].letter, e = Topic[l],
         NEW status \in Statuses, status # "IN_PROGRESS",
         NEW state \in States, state # "REPLAYING",
         attempts[a].status = "IN_PROGRESS",
         row[l].state = "REPLAYING", row[l].token = a,
         AloneAt(o, l),
         Settled(o, status, state),
         NEW p \in Invocation, Step(o, p), p.pc \in {"idle", "failed"},
         p.pc # "idle" => p.attempt = a,
         read' = read, projection' \in 0 .. LastEvent, faults' \in Nat,
         InboxGrows,
         status = "APPLIED" => inbox[e] = 0 /\ inbox'[e] = l /\ state = "REPLAYED_APPLIED"
  PROVE  Inv' /\ Final
  <1> USE DEF Inv
  <1>1. /\ a \in DOMAIN attempts
        /\ l \in Offsets /\ l # 0 /\ e \in 1 .. LastEvent
    BY AttemptTyped DEF TokensOK
  <1>2. /\ attempts' \in Seq(Attempt) /\ Len(attempts') = Len(attempts)
        /\ DOMAIN attempts' = DOMAIN attempts
        /\ \A b \in DOMAIN attempts : b # a => attempts'[b] = attempts[b]
        /\ \A b \in DOMAIN attempts : attempts'[b].letter = attempts[b].letter
        /\ attempts'[a].status = status
    BY <1>1, StatusEffect DEF TypeOK, Settled
  <1>3. /\ row' \in [Offsets -> DeadLetterRow]
        /\ row'[l].state = state /\ row'[l].token = 0 /\ row'[l].eligible = row[l].eligible
        /\ \A k \in Offsets : k # l => row'[k] = row[k]
    <2>1. Letter(o) = l
      BY DEF Letter
    <2> QED
      BY <1>1, <2>1, SettledRow, Zenon
  <1>4. /\ proc' \in [Operators -> Invocation]
        /\ proc'[o] = p /\ \A q \in Operators : q # o => proc'[q] = proc[q]
    BY DEF Step, TypeOK
  <1>5. \A b \in DOMAIN attempts :
          /\ attempts[b].letter \in Offsets /\ attempts[b].letter # 0
          /\ Topic[attempts[b].letter] \in 1 .. LastEvent
    BY AttemptTyped
  <1>6. TypeOK'
    <2>1. ASSUME NEW k \in Offsets
          PROVE  /\ row'[k].state = "REPLAYING" <=> row'[k].token # 0
                 /\ row'[k].eligible => Topic[k] # 0
      <3>1. CASE k = l
        BY <1>3, <3>1 DEF TypeOK
      <3>2. CASE k # l
        BY <1>3, <3>2 DEF TypeOK
      <3> QED
        BY <3>1, <3>2
    <2> QED
      BY <1>2, <1>3, <1>4, <2>1 DEF TypeOK, InboxGrows
  <1>7. TokensOK'
    <2>1. ASSUME NEW k \in Offsets, row'[k].token # 0
          PROVE  row'[k].token \in DOMAIN attempts' /\ attempts'[row'[k].token].letter = k
      <3>1. row'[k] = row[k]
        BY <1>3, <2>1
      <3> QED
        BY <1>2, <2>1, <3>1 DEF TokensOK
    <2>2. ASSUME NEW q \in Operators, proc'[q].pc # "idle"
          PROVE  proc'[q].attempt \in DOMAIN attempts'
      BY <1>1, <1>2, <1>4, <2>2 DEF TokensOK
    <2>3. \A b \in DOMAIN attempts' : Topic[attempts'[b].letter] # 0
      BY <1>2 DEF TokensOK
    <2> QED
      BY <2>1, <2>2, <2>3 DEF TokensOK
  <1>8. ASSUME NEW q \in Operators, proc'[q].pc \in InTX2
        PROVE  /\ q # o /\ proc'[q] = proc[q] /\ proc[q].pc \in InTX2
               /\ proc[q].attempt \in DOMAIN attempts /\ proc[q].attempt # a
               /\ Letter(q) # l /\ Letter(q)' = Letter(q) /\ Letter(q) \in Offsets
               /\ attempts'[proc[q].attempt] = attempts[proc[q].attempt]
    <2>1. q # o /\ proc'[q] = proc[q] /\ proc[q].pc \in InTX2 /\ Letter(q) # l
      BY <1>4, <1>8 DEF AloneAt, InTX2
    <2>2. proc[q].attempt \in DOMAIN attempts
      BY <2>1 DEF TokensOK, InTX2
    <2>3. proc[q].attempt # a
      BY <2>1 DEF Letter
    <2>4. Letter(q)' = Letter(q) /\ Letter(q) \in Offsets
      BY <1>2, <1>5, <2>1, <2>2 DEF Letter
    <2> QED
      BY <1>2, <2>1, <2>2, <2>3, <2>4
  <1>9. LocksOK'
    <2>1. ASSUME NEW q \in Operators, proc'[q].pc \in InTX2
          PROVE  /\ attempts'[proc'[q].attempt].status = "IN_PROGRESS"
                 /\ row'[Letter(q)'].state = "REPLAYING"
                 /\ row'[Letter(q)'].token = proc'[q].attempt
      <3>1. row'[Letter(q)'] = row[Letter(q)] /\ proc'[q] = proc[q]
        BY <1>3, <1>8, <2>1
      <3> QED
        BY <1>8, <2>1, <3>1 DEF LocksOK
    <2>2. ASSUME NEW q \in Operators, NEW s \in Operators,
                 proc'[q].pc \in InTX2, proc'[s].pc \in InTX2, Letter(q)' = Letter(s)'
          PROVE  q = s
      BY <1>8, <2>2 DEF LocksOK
    <2> QED
      BY <2>1, <2>2 DEF LocksOK
  <1>10. InProgressHoldsToken'
    <2>1. ASSUME NEW b \in DOMAIN attempts', attempts'[b].status = "IN_PROGRESS"
          PROVE  /\ row'[attempts'[b].letter].state = "REPLAYING"
                 /\ row'[attempts'[b].letter].token = b
      <3>1. b # a /\ b \in DOMAIN attempts /\ attempts'[b] = attempts[b]
        BY <1>2, <2>1
      <3>2. row[attempts[b].letter].state = "REPLAYING" /\ row[attempts[b].letter].token = b
        BY <2>1, <3>1 DEF InProgressHoldsToken
      <3> QED
        BY <1>3, <1>5, <3>1, <3>2
    <2> QED
      BY <2>1 DEF InProgressHoldsToken
  <1>11. AppliedOnce'
    <2>1. ASSUME NEW b \in DOMAIN attempts', attempts'[b].status = "APPLIED"
          PROVE  /\ inbox'[Topic[attempts'[b].letter]] = attempts'[b].letter
                 /\ row'[attempts'[b].letter].state = "REPLAYED_APPLIED"
      <3>1. CASE b = a
        BY <1>1, <1>2, <1>3, <2>1, <3>1
      <3>2. CASE b # a
        <4>1. /\ b \in DOMAIN attempts /\ attempts'[b] = attempts[b]
              /\ attempts[b].status = "APPLIED"
          BY <1>2, <2>1, <3>2
        <4>2. /\ inbox[Topic[attempts[b].letter]] = attempts[b].letter
              /\ row[attempts[b].letter].state = "REPLAYED_APPLIED"
          BY <4>1 DEF AppliedOnce
        <4>3. attempts[b].letter # l
          BY <4>2
        <4> QED
          BY <1>3, <1>5, <4>1, <4>2, <4>3 DEF InboxGrows
      <3> QED
        BY <3>1, <3>2
    <2>2. ASSUME NEW b \in DOMAIN attempts, b # a, attempts'[b].status = "APPLIED",
                 attempts'[a].status = "APPLIED"
          PROVE  Topic[attempts'[b].letter] # Topic[attempts'[a].letter]
      <3>1. attempts'[b] = attempts[b] /\ inbox[Topic[attempts[b].letter]] # 0
        BY <1>2, <1>5, <2>2 DEF AppliedOnce
      <3>2. inbox[e] = 0 /\ attempts'[a].letter = l
        BY <1>1, <1>2, <2>2
      <3> QED
        BY <3>1, <3>2
    <2>3. ASSUME NEW b \in DOMAIN attempts', NEW c \in DOMAIN attempts',
                 attempts'[b].status = "APPLIED", attempts'[c].status = "APPLIED",
                 Topic[attempts'[b].letter] = Topic[attempts'[c].letter]
          PROVE  b = c
      <3>1. CASE b = a \/ c = a
        BY <1>2, <2>2, <2>3, <3>1
      <3>2. CASE b # a /\ c # a
        <4>1. attempts'[b] = attempts[b] /\ attempts'[c] = attempts[c]
          BY <1>2, <3>2
        <4> QED
          BY <1>2, <2>3, <4>1 DEF AppliedOnce
      <3> QED
        BY <3>1, <3>2
    <2> QED
      BY <2>1, <2>3 DEF AppliedOnce
  <1>12. Final
    <2>1. \A b \in DOMAIN attempts : attempts[b].status # "IN_PROGRESS" => attempts'[b] = attempts[b]
      BY <1>2
    <2>2. \A k \in Offsets :
            row[k].state \in {"REPLAYED_APPLIED", "REPLAYED_DUPLICATE"} => row'[k] = row[k]
      BY <1>3
    <2> QED
      BY <2>1, <2>2 DEF Final
  <1> QED
    BY <1>6, <1>7, <1>9, <1>10, <1>11, <1>12

\* A claim supersedes the attempt whose token the letter carried and adds its own.
ClaimEffect(n, l, t) ==
    /\ attempts' \in Seq(Attempt) /\ Len(attempts') = n
    /\ DOMAIN attempts' = DOMAIN attempts \union {n} /\ n \notin DOMAIN attempts
    /\ \A b \in DOMAIN attempts :
         /\ attempts'[b].letter = attempts[b].letter
         /\ b # t \/ attempts[b].status # "IN_PROGRESS" => attempts'[b] = attempts[b]
         /\ b = t => attempts'[b].status # "IN_PROGRESS"
         /\ attempts'[b].status = "APPLIED" => attempts[b].status = "APPLIED"
    /\ attempts'[n].letter = l /\ attempts'[n].status = "IN_PROGRESS"

\* The attempts after a new one was inserted.
LEMMA Appended ==
  ASSUME NEW as \in Seq(Attempt), NEW rec \in Attempt, attempts' = Append(as, rec)
  PROVE  /\ attempts' \in Seq(Attempt) /\ Len(attempts') = Len(as) + 1
         /\ \A b \in 1 .. Len(as) : attempts'[b] = as[b]
         /\ attempts'[Len(as) + 1] = rec
  BY AppendProperties

\* TX1's writes to the attempts have the effect above.
LEMMA ClaimAttempts ==
  ASSUME Inv, NEW l \in Offsets, NEW k \in Keys, NEW f \in Requests, NEW t,
         attempts' = Append(Lost(attempts, t), [letter |-> l, key |-> k, fingerprint |-> f,
                                                status |-> "IN_PROGRESS"])
  PROVE  ClaimEffect(Len(attempts) + 1, l, t)
  <1> DEFINE rec == [letter |-> l, key |-> k, fingerprint |-> f, status |-> "IN_PROGRESS"]
             as == Lost(attempts, t)
             n == Len(attempts) + 1
  <1>1. rec \in Attempt /\ rec.letter = l /\ rec.status = "IN_PROGRESS"
    BY DEF Attempt, Statuses
  <1>2. /\ as \in Seq(Attempt) /\ Len(as) = Len(attempts) /\ DOMAIN as = DOMAIN attempts
        /\ \A b \in DOMAIN attempts :
             /\ as[b].letter = attempts[b].letter
             /\ b # t \/ attempts[b].status # "IN_PROGRESS" => as[b] = attempts[b]
             /\ b = t => as[b].status # "IN_PROGRESS"
             /\ as[b].status = "APPLIED" => attempts[b].status = "APPLIED"
    BY LostEffect DEF Inv, TypeOK
  <1>3. DOMAIN attempts = 1 .. Len(attempts) /\ Len(attempts) \in Nat
    BY AttemptTyped
  <1>4. attempts' = Append(as, rec)
    OBVIOUS
  <1> HIDE DEF rec, as
  <1>5. /\ attempts' \in Seq(Attempt) /\ Len(attempts') = n
        /\ \A b \in 1 .. Len(attempts) : attempts'[b] = as[b]
        /\ attempts'[n] = rec
    <2>1. /\ attempts' \in Seq(Attempt) /\ Len(attempts') = Len(as) + 1
          /\ \A b \in 1 .. Len(as) : attempts'[b] = as[b]
          /\ attempts'[Len(as) + 1] = rec
      BY <1>1, <1>2, <1>4, Appended, Zenon
    <2> QED
      BY <1>2, <2>1, Zenon
  <1>6. DOMAIN attempts' = 1 .. n
    BY <1>5, LenProperties
  <1>7. DOMAIN attempts' = DOMAIN attempts \union {n} /\ n \notin DOMAIN attempts
    BY <1>3, <1>6
  <1> HIDE DEF n
  <1>8. \A b \in DOMAIN attempts : attempts'[b] = as[b]
    BY <1>3, <1>5
  <1>9. ClaimEffect(n, l, t)
    BY <1>1, <1>2, <1>5, <1>7, <1>8 DEF ClaimEffect
  <1> QED
    BY <1>9 DEF n

\* A letter that may be claimed.
LEMMA ClaimStep ==
  ASSUME Inv, NEW o \in Operators, NEW l \in Offsets, NEW n, NEW t,
         n = Len(attempts) + 1, n <= MaxReplays, t = row[l].token,
         ~Locked(l), row[l].eligible,
         row[l].state \in {"PENDING", "REPLAY_FAILED", "REPLAYING"},
         ClaimEffect(n, l, t), RowMoves(l, "REPLAYING", n),
         NEW p \in Invocation, Step(o, p), p.pc = "claimed", p.attempt = n,
         UNCHANGED <<read, inbox, projection, faults>>
  PROVE  Inv' /\ Final
  <1> USE DEF Inv
  <1>1. n \in 1 .. MaxReplays /\ n # 0
    BY AttemptTyped, ReplayAssumption
  <1>2. /\ attempts' \in Seq(Attempt) /\ Len(attempts') = n
        /\ DOMAIN attempts' = DOMAIN attempts \union {n} /\ n \notin DOMAIN attempts
        /\ \A b \in DOMAIN attempts :
             /\ attempts'[b].letter = attempts[b].letter
             /\ b # t \/ attempts[b].status # "IN_PROGRESS" => attempts'[b] = attempts[b]
             /\ b = t => attempts'[b].status # "IN_PROGRESS"
             /\ attempts'[b].status = "APPLIED" => attempts[b].status = "APPLIED"
        /\ attempts'[n].letter = l /\ attempts'[n].status = "IN_PROGRESS"
    BY DEF ClaimEffect
  <1>3. /\ row' \in [Offsets -> DeadLetterRow]
        /\ row'[l].state = "REPLAYING" /\ row'[l].token = n
        /\ row'[l].eligible = row[l].eligible
        /\ \A k \in Offsets : k # l => row'[k] = row[k]
    <2>1. n \in 0 .. MaxReplays /\ "REPLAYING" \in States
      BY <1>1 DEF States
    <2> QED
      BY <2>1, RowEffect
  <1>4. /\ proc' \in [Operators -> Invocation]
        /\ proc'[o] = p /\ \A q \in Operators : q # o => proc'[q] = proc[q]
    BY DEF Step, TypeOK
  <1>5. \A b \in DOMAIN attempts : attempts[b].letter \in Offsets
    BY AttemptTyped
  <1>6. TypeOK'
    <2>1. ASSUME NEW k \in Offsets
          PROVE  /\ row'[k].state = "REPLAYING" <=> row'[k].token # 0
                 /\ row'[k].eligible => Topic[k] # 0
      <3>1. CASE k = l
        BY <1>1, <1>3, <3>1 DEF TypeOK
      <3>2. CASE k # l
        BY <1>3, <3>2 DEF TypeOK
      <3> QED
        BY <3>1, <3>2
    <2> QED
      BY <1>2, <1>3, <1>4, <2>1 DEF TypeOK
  <1>7. TokensOK'
    <2>1. ASSUME NEW k \in Offsets, row'[k].token # 0
          PROVE  row'[k].token \in DOMAIN attempts' /\ attempts'[row'[k].token].letter = k
      <3>1. CASE k = l
        BY <1>2, <1>3, <3>1
      <3>2. CASE k # l
        <4>1. row'[k] = row[k]
          BY <1>3, <3>2
        <4> QED
          BY <1>2, <2>1, <4>1 DEF TokensOK
      <3> QED
        BY <3>1, <3>2
    <2>2. ASSUME NEW q \in Operators, proc'[q].pc # "idle"
          PROVE  proc'[q].attempt \in DOMAIN attempts'
      BY <1>2, <1>4, <2>2 DEF TokensOK
    <2>3. ASSUME NEW b \in DOMAIN attempts'
          PROVE  Topic[attempts'[b].letter] # 0
      <3>1. CASE b = n
        BY <1>2, <3>1 DEF TypeOK
      <3>2. CASE b # n
        BY <1>2, <2>3, <3>2 DEF TokensOK
      <3> QED
        BY <3>1, <3>2
    <2> QED
      BY <2>1, <2>2, <2>3 DEF TokensOK
  <1>8. ASSUME NEW q \in Operators, proc'[q].pc \in InTX2
        PROVE  /\ proc'[q] = proc[q] /\ proc[q].pc \in InTX2
               /\ proc[q].attempt \in DOMAIN attempts
               /\ Letter(q) # l /\ Letter(q)' = Letter(q) /\ Letter(q) \in Offsets
               /\ attempts'[proc[q].attempt] = attempts[proc[q].attempt]
    <2>1. q # o /\ proc'[q] = proc[q] /\ proc[q].pc \in InTX2
      BY <1>4, <1>8 DEF InTX2
    <2>2. proc[q].attempt \in DOMAIN attempts /\ proc[q].attempt # 0
      BY <2>1, AttemptTyped DEF TokensOK, InTX2
    <2>3. Letter(q) # l
      BY <2>1 DEF Locked, Letter
    <2>4. proc[q].attempt # t
      BY <2>2, <2>3 DEF TokensOK, Letter
    <2>5. attempts'[proc[q].attempt] = attempts[proc[q].attempt]
      BY <1>2, <2>2, <2>4
    <2>6. Letter(q)' = Letter(q) /\ Letter(q) \in Offsets
      BY <1>5, <2>1, <2>2, <2>5 DEF Letter
    <2> QED
      BY <2>1, <2>2, <2>3, <2>5, <2>6
  <1>9. LocksOK'
    <2>1. ASSUME NEW q \in Operators, proc'[q].pc \in InTX2
          PROVE  /\ attempts'[proc'[q].attempt].status = "IN_PROGRESS"
                 /\ row'[Letter(q)'].state = "REPLAYING"
                 /\ row'[Letter(q)'].token = proc'[q].attempt
      <3>1. row'[Letter(q)'] = row[Letter(q)] /\ proc'[q] = proc[q]
        BY <1>3, <1>8, <2>1
      <3> QED
        BY <1>8, <2>1, <3>1 DEF LocksOK
    <2>2. ASSUME NEW q \in Operators, NEW s \in Operators,
                 proc'[q].pc \in InTX2, proc'[s].pc \in InTX2, Letter(q)' = Letter(s)'
          PROVE  q = s
      BY <1>8, <2>2 DEF LocksOK
    <2> QED
      BY <2>1, <2>2 DEF LocksOK
  <1>10. InProgressHoldsToken'
    <2>1. ASSUME NEW b \in DOMAIN attempts', attempts'[b].status = "IN_PROGRESS"
          PROVE  /\ row'[attempts'[b].letter].state = "REPLAYING"
                 /\ row'[attempts'[b].letter].token = b
      <3>1. CASE b = n
        BY <1>2, <1>3, <3>1
      <3>2. CASE b # n
        <4>1. b \in DOMAIN attempts /\ b # t /\ attempts'[b] = attempts[b]
          BY <1>2, <2>1, <3>2
        <4>2. row[attempts[b].letter].state = "REPLAYING" /\ row[attempts[b].letter].token = b
          BY <2>1, <4>1 DEF InProgressHoldsToken
        <4>3. attempts[b].letter # l
          BY <4>1, <4>2
        <4> QED
          BY <1>3, <1>5, <4>1, <4>2, <4>3
      <3> QED
        BY <3>1, <3>2
    <2> QED
      BY <2>1 DEF InProgressHoldsToken
  <1>11. AppliedOnce'
    <2>1. ASSUME NEW b \in DOMAIN attempts', attempts'[b].status = "APPLIED"
          PROVE  /\ b \in DOMAIN attempts /\ attempts'[b] = attempts[b]
                 /\ attempts[b].status = "APPLIED"
                 /\ inbox[Topic[attempts[b].letter]] = attempts[b].letter
                 /\ row'[attempts[b].letter].state = "REPLAYED_APPLIED"
      <3>1. b \in DOMAIN attempts /\ attempts[b].status = "APPLIED"
        BY <1>2, <2>1
      <3>2. attempts'[b] = attempts[b]
        BY <1>2, <3>1
      <3>3. /\ inbox[Topic[attempts[b].letter]] = attempts[b].letter
            /\ row[attempts[b].letter].state = "REPLAYED_APPLIED"
        BY <3>1 DEF AppliedOnce
      <3>4. row'[attempts[b].letter] = row[attempts[b].letter]
        BY <1>3, <1>5, <3>1, <3>3
      <3> QED
        BY <3>1, <3>2, <3>3, <3>4
    <2>2. ASSUME NEW b \in DOMAIN attempts', NEW c \in DOMAIN attempts',
                 attempts'[b].status = "APPLIED", attempts'[c].status = "APPLIED",
                 Topic[attempts'[b].letter] = Topic[attempts'[c].letter]
          PROVE  b = c
      BY <2>1, <2>2 DEF AppliedOnce
    <2> QED
      BY <2>1, <2>2 DEF AppliedOnce
  <1>12. Final
    <2>1. \A b \in DOMAIN attempts : attempts[b].status # "IN_PROGRESS" => attempts'[b] = attempts[b]
      BY <1>2
    <2>2. \A k \in Offsets :
            row[k].state \in {"REPLAYED_APPLIED", "REPLAYED_DUPLICATE"} => row'[k] = row[k]
      BY <1>3
    <2> QED
      BY <2>1, <2>2 DEF Final
  <1> QED
    BY <1>6, <1>7, <1>9, <1>10, <1>11, <1>12

\* An invocation that owns its letter, alone, may go on applying it.
LEMMA BeginStep ==
  ASSUME Inv, NEW o \in Operators, proc[o].pc # "idle", AloneAt(o, Letter(o)),
         attempts[proc[o].attempt].status = "IN_PROGRESS",
         row[Letter(o)].state = "REPLAYING", row[Letter(o)].token = proc[o].attempt,
         NEW p \in Invocation, Step(o, p), p.attempt = proc[o].attempt, p.pc \in InTX2,
         UNCHANGED <<read, inbox, projection, row, attempts, faults>>
  PROVE  Inv' /\ Final
  <1> USE DEF Inv
  <1>1. /\ proc' \in [Operators -> Invocation]
        /\ proc'[o] = p /\ \A q \in Operators : q # o => proc'[q] = proc[q]
    BY DEF Step, TypeOK
  <1>2. TypeOK'
    BY <1>1 DEF TypeOK
  <1>3. TokensOK'
    BY <1>1 DEF TokensOK
  <1>4. \A q \in Operators : Letter(q)' = Letter(q) /\ proc'[q].attempt = proc[q].attempt
    BY <1>1 DEF Letter
  <1>5. \A q \in Operators : q # o /\ proc'[q].pc \in InTX2 =>
          proc[q].pc \in InTX2 /\ Letter(q) # Letter(o)
    BY <1>1 DEF AloneAt
  <1>6. LocksOK'
    <2>1. ASSUME NEW q \in Operators, proc'[q].pc \in InTX2
          PROVE  /\ attempts[proc[q].attempt].status = "IN_PROGRESS"
                 /\ row[Letter(q)].state = "REPLAYING"
                 /\ row[Letter(q)].token = proc[q].attempt
      BY <1>5, <2>1 DEF LocksOK
    <2>2. ASSUME NEW q \in Operators, NEW s \in Operators,
                 proc'[q].pc \in InTX2, proc'[s].pc \in InTX2, Letter(q) = Letter(s)
          PROVE  q = s
      BY <1>5, <2>2 DEF LocksOK
    <2> QED
      BY <1>4, <2>1, <2>2 DEF LocksOK
  <1>7. InProgressHoldsToken' /\ AppliedOnce' /\ Final
    BY DEF InProgressHoldsToken, AppliedOnce, Final
  <1> QED
    BY <1>2, <1>3, <1>6, <1>7

-----------------------------------------------------------------------------
(* The actions *)

\* The records that invocations move to.
LEMMA Fields ==
  ASSUME Inv, NEW o \in Operators, NEW n \in 0 .. MaxReplays
  PROVE  /\ Idle \in Invocation /\ Idle.pc = "idle"
         /\ LET p == [proc[o] EXCEPT !.pc = "failed"]
            IN  p \in Invocation /\ p.pc = "failed" /\ p.attempt = proc[o].attempt
         /\ LET p == [proc[o] EXCEPT !.pc = "applying"]
            IN  p \in Invocation /\ p.pc \in InTX2 /\ p.attempt = proc[o].attempt
         /\ LET p == [proc[o] EXCEPT !.pc = "writing", !.seen = projection]
            IN  p \in Invocation /\ p.pc \in InTX2 /\ p.attempt = proc[o].attempt
         /\ LET p == [Idle EXCEPT !.pc = "claimed", !.attempt = n]
            IN  p \in Invocation /\ p.pc = "claimed" /\ p.attempt = n
  <1>1. Idle \in Invocation /\ Idle.pc = "idle"
    BY ReplayAssumption DEF Idle, Invocation
  <1>2. proc[o] \in Invocation /\ projection \in 0 .. LastEvent
    BY DEF Inv, TypeOK
  <1>3. LET p == [proc[o] EXCEPT !.pc = "failed"]
        IN  p \in Invocation /\ p.pc = "failed" /\ p.attempt = proc[o].attempt
    BY <1>2 DEF Invocation
  <1>4. /\ LET p == [proc[o] EXCEPT !.pc = "applying"]
           IN  p \in Invocation /\ p.pc \in InTX2 /\ p.attempt = proc[o].attempt
        /\ LET p == [proc[o] EXCEPT !.pc = "writing", !.seen = projection]
           IN  p \in Invocation /\ p.pc \in InTX2 /\ p.attempt = proc[o].attempt
    BY <1>2 DEF Invocation, InTX2
  <1>5. LET p == [Idle EXCEPT !.pc = "claimed", !.attempt = n]
        IN  p \in Invocation /\ p.pc = "claimed" /\ p.attempt = n
    BY <1>1 DEF Invocation
  <1> QED
    BY <1>1, <1>3, <1>4, <1>5

\* The record of an invocation whose TX2 failed.
FailedOf(o) == [proc[o] EXCEPT !.pc = "failed"]

\* What the two ways a commit is answered have in common.
LEMMA CommittedEffect ==
  ASSUME Inv, NEW o \in Operators, Committed(o)
  PROVE  \E p \in Invocation :
           /\ Step(o, p) /\ p.pc \in {"idle", "failed"}
           /\ p.pc # "idle" => p.attempt = proc[o].attempt
           /\ faults' \in Nat
  <1>1. 0 \in 0 .. MaxReplays
    BY ReplayAssumption
  <1>2. Idle \in Invocation /\ Idle.pc = "idle"
    BY <1>1, Fields
  <1>3. /\ FailedOf(o) \in Invocation /\ FailedOf(o).pc = "failed"
        /\ FailedOf(o).attempt = proc[o].attempt
    BY <1>1, Fields DEF FailedOf
  <1>4. CASE Step(o, Idle) /\ UNCHANGED faults
    <2>1. faults' \in Nat
      BY <1>4 DEF Inv, TypeOK
    <2> QED
      BY <1>2, <1>4, <2>1
  <1>5. CASE Step(o, FailedOf(o)) /\ Fault
    <2>1. faults' \in Nat
      BY <1>5 DEF Inv, TypeOK, Fault
    <2> QED
      BY <1>3, <1>5, <2>1
  <1> QED
    BY <1>4, <1>5 DEF Committed, FailedOf

\* An invocation that owns its letter and finds it unlocked is alone at it.
LEMMA OwnerAlone ==
  ASSUME NEW o \in Operators, ~Locked(Letter(o)) PROVE AloneAt(o, Letter(o))
  BY DEF Locked, AloneAt, Letter

\* Ownership is what settling needs.
LEMMA OwnedEffect ==
  ASSUME NEW o \in Operators, NEW expired \in BOOLEAN, Owned(o, expired)
  PROVE  /\ attempts[proc[o].attempt].status = "IN_PROGRESS"
         /\ row[Letter(o)].state = "REPLAYING" /\ row[Letter(o)].token = proc[o].attempt
  BY DEF Owned

\* TX1, for a new key and for a key whose own attempt expired.
LEMMA ClaimActions ==
  ASSUME Inv, NEW o \in Operators, NEW l \in Offsets, NEW k \in Keys, NEW f \in Requests,
         NEW expired \in BOOLEAN,
         Claim(o, l, k, f, expired) \/ ExpireSameKey(o, l, k, f, expired)
  PROVE  Inv' /\ Final
  <1>1. CASE Claim(o, l, k, f, expired)
    <2> DEFINE n == Len(attempts) + 1
               p == [Idle EXCEPT !.pc = "claimed", !.attempt = n]
    <2>1. n \in 0 .. MaxReplays /\ n <= MaxReplays
      BY <1>1, AttemptTyped, ReplayAssumption DEF Claim
    <2>2. p \in Invocation /\ p.pc = "claimed" /\ p.attempt = n
      BY <2>1, Fields
    <2>3. Step(o, p) /\ RowMoves(l, "REPLAYING", n)
      BY <1>1 DEF Claim, RowMoves
    <2>4. ClaimEffect(n, l, row[l].token)
      <3>1. attempts' = Append(Lost(attempts, row[l].token),
                               [letter |-> l, key |-> k, fingerprint |-> f,
                                status |-> "IN_PROGRESS"])
        BY <1>1 DEF Claim
      <3> QED
        BY <3>1, ClaimAttempts
    <2>5. /\ ~Locked(l) /\ row[l].eligible
          /\ row[l].state \in {"PENDING", "REPLAY_FAILED", "REPLAYING"}
          /\ UNCHANGED <<read, inbox, projection, faults>>
      BY <1>1 DEF Claim, Eligible
    <2> HIDE DEF p
    <2> QED
      BY <2>1, <2>2, <2>3, <2>4, <2>5, ClaimStep
  <1>2. CASE ExpireSameKey(o, l, k, f, expired)
    <2>1. PICK a \in Existing(l, k) : attempts' = Lost(attempts, a)
      BY <1>2 DEF ExpireSameKey
    <2>2. a \in DOMAIN attempts /\ ~Locked(attempts[a].letter)
      BY <1>2 DEF ExpireSameKey, Existing
    <2> QED
      BY <1>2, <2>1, <2>2, LostStep DEF ExpireSameKey
  <1> QED
    BY <1>1, <1>2

\* TX2 takes its locks and does not find the event in the inbox.
LEMMA BeginAction ==
  ASSUME Inv, NEW o \in Operators, NEW expired \in BOOLEAN, BeginApply(o, expired)
  PROVE  Inv' /\ Final
  <1> DEFINE p == [proc[o] EXCEPT !.pc = "applying"]
  <1>1. 0 \in 0 .. MaxReplays
    BY ReplayAssumption
  <1>2. /\ proc[o].pc = "claimed" /\ AloneAt(o, Letter(o)) /\ Step(o, p)
        /\ UNCHANGED <<read, inbox, projection, row, attempts, faults>>
    BY OwnerAlone DEF BeginApply
  <1>3. /\ attempts[proc[o].attempt].status = "IN_PROGRESS"
        /\ row[Letter(o)].state = "REPLAYING" /\ row[Letter(o)].token = proc[o].attempt
    BY OwnedEffect DEF BeginApply
  <1>4. p \in Invocation /\ p.pc \in InTX2 /\ p.attempt = proc[o].attempt
    BY <1>1, Fields
  <1> HIDE DEF p
  <1> QED
    BY <1>2, <1>3, <1>4, BeginStep

\* TX2 reads the projection: the event is refused, or it is going to be applied.
LEMMA ReadAction ==
  ASSUME Inv, NEW o \in Operators, ReadProjection(o)
  PROVE  Inv' /\ Final
  <1> DEFINE p == [proc[o] EXCEPT !.pc = "writing", !.seen = projection]
  <1>1. 0 \in 0 .. MaxReplays
    BY ReplayAssumption
  <1>2. /\ proc[o].pc = "applying" /\ proc[o].pc \in InTX2
        /\ UNCHANGED <<read, inbox, projection, row, attempts, faults>>
    BY DEF ReadProjection, InTX2
  <1>3. CASE Step(o, p)
    <2>1. /\ attempts[proc[o].attempt].status = "IN_PROGRESS"
          /\ row[Letter(o)].state = "REPLAYING" /\ row[Letter(o)].token = proc[o].attempt
      BY <1>2 DEF Inv, LocksOK
    <2>2. AloneAt(o, Letter(o))
      BY <1>2 DEF Inv, LocksOK, AloneAt
    <2>3. p \in Invocation /\ p.pc \in InTX2 /\ p.attempt = proc[o].attempt
      BY <1>1, Fields
    <2> HIDE DEF p
    <2> QED
      BY <1>2, <1>3, <2>1, <2>2, <2>3, BeginStep
  <1>4. CASE Step(o, FailedOf(o))
    <2>1. /\ FailedOf(o) \in Invocation /\ FailedOf(o).pc = "failed"
          /\ FailedOf(o).attempt = proc[o].attempt
      BY <1>1, Fields DEF FailedOf
    <2>2. faults' \in Nat
      BY <1>2 DEF Inv, TypeOK
    <2> QED
      BY <1>2, <1>4, <2>1, <2>2, ProcStep
  <1> QED
    BY <1>3, <1>4 DEF ReadProjection, FailedOf

\* TX2 finds the event in the inbox and settles the letter as a duplicate.
LEMMA DuplicateAction ==
  ASSUME Inv, NEW o \in Operators, NEW expired \in BOOLEAN, ApplyDuplicate(o, expired)
  PROVE  Inv' /\ Final
  <1>1. /\ proc[o].pc # "idle" /\ AloneAt(o, Letter(o))
        /\ Settled(o, "DUPLICATE", "REPLAYED_DUPLICATE") /\ Committed(o)
        /\ read' = read /\ inbox' = inbox /\ projection' = projection
    BY OwnerAlone DEF ApplyDuplicate
  <1>2. /\ attempts[proc[o].attempt].status = "IN_PROGRESS"
        /\ row[Letter(o)].state = "REPLAYING" /\ row[Letter(o)].token = proc[o].attempt
    BY OwnedEffect DEF ApplyDuplicate
  <1>3. InboxGrows /\ projection' \in 0 .. LastEvent
    BY <1>1 DEF Inv, TypeOK, InboxGrows
  <1>4. "DUPLICATE" \in Statuses /\ "REPLAYED_DUPLICATE" \in States
    BY DEF Statuses, States
  <1>5. PICK p \in Invocation :
          /\ Step(o, p) /\ p.pc \in {"idle", "failed"}
          /\ p.pc # "idle" => p.attempt = proc[o].attempt
          /\ faults' \in Nat
    BY <1>1, CommittedEffect
  <1> QED
    BY <1>1, <1>2, <1>3, <1>4, <1>5, SettleStep DEF Letter

\* TX2 commits the event and settles the letter as applied.
LEMMA FinishAction ==
  ASSUME Inv, NEW o \in Operators, FinishApply(o) PROVE Inv' /\ Final
  <1> DEFINE l == Letter(o)
             e == Topic[l]
  <1>1. /\ proc[o].pc \in InTX2 /\ proc[o].pc = "writing" /\ inbox[e] = 0
        /\ Settled(o, "APPLIED", "REPLAYED_APPLIED") /\ Committed(o)
        /\ read' = read /\ inbox' = [inbox EXCEPT ![e] = l] /\ projection' = e
    BY DEF FinishApply, Conflict, InTX2
  <1>2. AloneAt(o, l)
    BY <1>1 DEF Inv, LocksOK, AloneAt
  <1>3. /\ attempts[proc[o].attempt].status = "IN_PROGRESS"
        /\ row[l].state = "REPLAYING" /\ row[l].token = proc[o].attempt
    BY <1>1 DEF Inv, LocksOK
  <1>4. proc[o].attempt \in DOMAIN attempts
    BY <1>1 DEF Inv, TokensOK
  <1>5. l \in Offsets /\ e \in 1 .. LastEvent
    BY <1>4, AttemptTyped DEF Letter
  <1>6. InboxGrows /\ inbox'[e] = l
    BY <1>1, <1>5, InboxEffect DEF Inv
  <1>7. projection' \in 0 .. LastEvent
    BY <1>1, <1>5, ReplayAssumption
  <1>8. "APPLIED" \in Statuses /\ "REPLAYED_APPLIED" \in States
    BY DEF Statuses, States
  <1>9. PICK p \in Invocation :
          /\ Step(o, p) /\ p.pc \in {"idle", "failed"}
          /\ p.pc # "idle" => p.attempt = proc[o].attempt
          /\ faults' \in Nat
    BY <1>1, CommittedEffect
  <1>10. l = attempts[proc[o].attempt].letter /\ proc[o].pc # "idle" /\ read' = read /\ inbox[e] = 0
           /\ Settled(o, "APPLIED", "REPLAYED_APPLIED")
    BY <1>1 DEF Letter
  <1> HIDE DEF l
  <1> QED
    BY <1>2, <1>3, <1>6, <1>7, <1>8, <1>9, <1>10, SettleStep

\* TX3 settles the letter as failed.
LEMMA FailureAction ==
  ASSUME Inv, NEW o \in Operators, NEW expired \in BOOLEAN, RecordFailure(o, expired)
  PROVE  Inv' /\ Final
  <1>1. /\ proc[o].pc # "idle" /\ AloneAt(o, Letter(o))
        /\ Settled(o, "FAILED", "REPLAY_FAILED") /\ Step(o, Idle)
        /\ read' = read /\ inbox' = inbox /\ projection' = projection /\ faults' = faults
    BY OwnerAlone DEF RecordFailure
  <1>2. /\ attempts[proc[o].attempt].status = "IN_PROGRESS"
        /\ row[Letter(o)].state = "REPLAYING" /\ row[Letter(o)].token = proc[o].attempt
    BY OwnedEffect DEF RecordFailure
  <1>3. InboxGrows /\ projection' \in 0 .. LastEvent /\ faults' \in Nat
    BY <1>1 DEF Inv, TypeOK, InboxGrows
  <1>4. "FAILED" \in Statuses /\ "REPLAY_FAILED" \in States
    BY DEF Statuses, States
  <1>5. 0 \in 0 .. MaxReplays
    BY ReplayAssumption
  <1>6. Idle \in Invocation /\ Idle.pc = "idle"
    BY <1>5, Fields
  <1> QED
    BY <1>1, <1>2, <1>3, <1>4, <1>6, SettleStep DEF Letter

\* TX2 or TX3 finds that the letter is no longer its own.
LEMMA LosesAction ==
  ASSUME Inv, NEW o \in Operators, NEW expired \in BOOLEAN, LosesOwnership(o, expired)
  PROVE  Inv' /\ Final
  <1>1. proc[o].attempt \in DOMAIN attempts
    BY DEF LosesOwnership, Inv, TokensOK
  <1>2. ~Locked(attempts[proc[o].attempt].letter)
    BY DEF LosesOwnership, Letter
  <1> QED
    BY <1>1, <1>2, LostStep DEF LosesOwnership

\* TX2 is rolled back, or the command dies.
LEMMA FailActions ==
  ASSUME Inv, NEW o \in Operators, ApplyFails(o) \/ Crash(o) PROVE Inv' /\ Final
  <1>1. faults' \in Nat /\ UNCHANGED <<read, inbox, projection, row, attempts>>
    BY DEF ApplyFails, Crash, Fault, Inv, TypeOK
  <1>2. 0 \in 0 .. MaxReplays
    BY ReplayAssumption
  <1>3. CASE ApplyFails(o)
    <2>1. Step(o, FailedOf(o)) /\ proc[o].pc # "idle"
      BY <1>3 DEF ApplyFails, FailedOf, InTX2
    <2>2. /\ FailedOf(o) \in Invocation /\ FailedOf(o).pc = "failed"
          /\ FailedOf(o).attempt = proc[o].attempt
      BY <1>2, Fields DEF FailedOf
    <2> QED
      BY <1>1, <2>1, <2>2, ProcStep
  <1>4. CASE Crash(o)
    <2>1. Step(o, Idle)
      BY <1>4 DEF Crash
    <2>2. Idle \in Invocation /\ Idle.pc = "idle"
      BY <1>2, Fields
    <2> QED
      BY <1>1, <2>1, <2>2, ProcStep
  <1> QED
    BY <1>3, <1>4

\* A stuttering step changes none of it.
LEMMA StutterStep == ASSUME Inv, UNCHANGED vars PROVE Inv' /\ Final
  <1>1. TypeOK' /\ TokensOK'
    BY DEF Inv, vars, TypeOK, TokensOK
  <1>2. LocksOK' /\ InProgressHoldsToken' /\ AppliedOnce' /\ Final
    BY DEF Inv, vars, LocksOK, Letter, InProgressHoldsToken, AppliedOnce, Final
  <1> QED
    BY <1>1, <1>2 DEF Inv

\* Every step keeps the invariant and what is settled.
LEMMA NextStep == ASSUME Inv, [Next]_vars PROVE Inv' /\ Final
  <1>1. ASSUME NEW x \in Offsets, Consume(x) PROVE Inv' /\ Final
    BY <1>1, ConsumeStep
  <1>2. CASE Correct
    BY <1>2, CorrectStep
  <1>3. ASSUME NEW o \in Operators, ReadProjection(o) \/ FinishApply(o) PROVE Inv' /\ Final
    BY <1>3, ReadAction, FinishAction
  <1>4. ASSUME NEW o \in Operators, ApplyFails(o) \/ Crash(o) PROVE Inv' /\ Final
    BY <1>4, FailActions
  <1>5. ASSUME NEW o \in Operators, NEW expired \in BOOLEAN, BeginApply(o, expired)
        PROVE  Inv' /\ Final
    BY <1>5, BeginAction
  <1>6. ASSUME NEW o \in Operators, NEW expired \in BOOLEAN, ApplyDuplicate(o, expired)
        PROVE  Inv' /\ Final
    BY <1>6, DuplicateAction
  <1>7. ASSUME NEW o \in Operators, NEW expired \in BOOLEAN, RecordFailure(o, expired)
        PROVE  Inv' /\ Final
    BY <1>7, FailureAction
  <1>8. ASSUME NEW o \in Operators, NEW expired \in BOOLEAN, LosesOwnership(o, expired)
        PROVE  Inv' /\ Final
    BY <1>8, LosesAction
  <1>9. ASSUME NEW o \in Operators, NEW expired \in BOOLEAN,
               NEW l \in Offsets, NEW k \in Keys, NEW f \in Requests,
               Claim(o, l, k, f, expired) \/ ExpireSameKey(o, l, k, f, expired)
        PROVE  Inv' /\ Final
    BY <1>9, ClaimActions
  <1>10. CASE UNCHANGED vars
    BY <1>10, StutterStep
  <1> QED
    BY <1>1, <1>2, <1>3, <1>4, <1>5, <1>6, <1>7, <1>8, <1>9, <1>10, Zenon DEF Next

-----------------------------------------------------------------------------
(* Theorems *)

\* The strengthened invariant holds in every reachable state.
THEOREM ReplayInvariant == Spec => []Inv
  <1>1. Inv /\ [Next]_vars => Inv'
    BY NextStep
  <1> QED
    BY InitInv, <1>1, PTL DEF Spec

\* The tables of the replay satisfy their CHECK constraints: a claim token goes
\* with REPLAYING, and only a decoded record is eligible.
THEOREM ReplayTypeCorrect == Spec => []TypeOK
  <1>1. Inv => TypeOK
    BY DEF Inv
  <1> QED
    BY ReplayInvariant, <1>1, PTL

\* However many operators replay a letter, on whatever clocks, at most one attempt
\* at it can still have an effect: the one whose token the letter carries.
THEOREM ReplayHoldsToken == Spec => []InProgressHoldsToken
  <1>1. Inv => InProgressHoldsToken
    BY DEF Inv
  <1> QED
    BY ReplayInvariant, <1>1, PTL

\* An event is replayed as applied at most once, and never when the consumer or
\* the replay of another letter applied it.
THEOREM ReplayAppliedOnce == Spec => []AppliedOnce
  <1>1. Inv => AppliedOnce
    BY DEF Inv
  <1> QED
    BY ReplayInvariant, <1>1, PTL

\* No step of the consumer or of a late command changes a finished attempt or a
\* letter that was replayed.
THEOREM ReplaySettledIsFinal == Spec => SettledIsFinal
  <1>1. Inv /\ [Next]_vars => Final
    BY NextStep
  <1> QED
    BY ReplayInvariant, <1>1, PTL DEF Spec, SettledIsFinal, Final
=============================================================================
