--------------------------- MODULE Consumer_proofs ---------------------------
(***************************************************************************)
(* Theorems about Consumer, for any number of jobs and consumer processes, *)
(* stories of any length and any bounds: with rebalances between any two   *)
(* steps, lost answers of database and broker, and restarts.               *)
(***************************************************************************)
EXTENDS Consumer, SequenceTheorems, TLAPS

-----------------------------------------------------------------------------
(* The inductive invariant *)

Tries == 0 .. MaxAttempts
Proc == [pc : {"off", "poll", "apply", "effect", "write", "dead", "commit"},
         next : Nat, at : Nat, tries : Tries, seen : Nat,
         code : {"none", "malformed", "lifecycle"}]

LEMMA TriesTyped ==
  0 \in Tries /\ 1 \in Tries /\ \A t \in Tries : t < MaxAttempts => t + 1 \in Tries
  BY AttemptAssumption DEF Tries

\* Every record before an offset is settled.
HandledBefore(offset) == \A o \in 1 .. offset - 1 : Handled(o)

\* The event at an offset is refused from now on: its job's projection is terminal.
Refused(offset) ==
    /\ Event(offset) # Foreign
    /\ Terminal(Event(offset)[1], projection[Event(offset)[1]])

\* Whether the writes of a transaction that read the projection will go through.
Unopposed(p) ==
    /\ Event(p.at) \notin inbox
    /\ ~(p.seen = 0 /\ projection[Event(p.at)[1]] # 0)

\* What a process has to show for its program counter.  A process that holds a
\* record has settled all records before it, also when another process has the
\* partition by now.  A projection that was read and can still be written has
\* not changed since and is not terminal.
Fine(p, owns) ==
    /\ owns => p.pc # "off"
    /\ owns /\ p.pc = "poll" => p.next \in 1 .. Len(log) + 1 /\ HandledBefore(p.next)
    /\ p.pc \in {"apply", "effect", "write", "dead", "commit"} =>
         p.at \in 1 .. Len(log) /\ p.next = p.at + 1 /\ HandledBefore(p.at)
    /\ p.pc \in {"apply", "effect", "write"} => Event(p.at) # Foreign
    /\ p.pc = "write" /\ Unopposed(p) =>
         /\ projection[Event(p.at)[1]] = p.seen
         /\ ~Terminal(Event(p.at)[1], p.seen)
    /\ p.pc = "dead" =>
         \/ Event(p.at) = Foreign /\ p.code = "malformed"
         \/ Refused(p.at) /\ p.code = "lifecycle"
    /\ p.pc = "commit" => Handled(p.at)

ProcsOK == \A c \in Consumers : Fine(proc[c], owner = c)

DeadOK ==
    /\ \A i \in DOMAIN dead :
         /\ dead[i].offset \in 1 .. Len(log)
         /\ dead[i].code = "malformed" => Event(dead[i].offset) = Foreign
         /\ dead[i].code = "lifecycle" => Refused(dead[i].offset)
    /\ \A i, k \in DOMAIN dead : dead[i].offset = dead[k].offset => i = k

Inv == TypeOK /\ ProcsOK /\ DeadOK /\ CommittedIsHandled

-----------------------------------------------------------------------------
(* Facts about the state *)

Letter == [offset : Nat \ {0}, code : {"malformed", "lifecycle"}, count : Nat \ {0}]

LEMMA LogTyped ==
  ASSUME TypeOK
  PROVE  /\ Len(log) \in Nat /\ Len(dead) \in Nat
         /\ \A o \in 1 .. Len(log) :
              /\ Event(o) \in Records
              /\ Event(o) # Foreign => Event(o)[1] \in Jobs /\ Event(o)[2] \in Nat \ {0}
         /\ \A i \in DOMAIN dead : dead[i] \in Letter
         /\ Foreign \notin inbox
  <1>1. log \in Seq(Records) /\ dead \in Seq(Letter)
    BY DEF TypeOK, Letter
  <1>2. \A o \in 1 .. Len(log) : Event(o) \in Records
    BY <1>1, ElementOfSeq DEF Event
  <1>3. \A r \in Records : r # Foreign => r[1] \in Jobs /\ r[2] \in Nat \ {0}
    BY DEF Records
  <1>4. \A i \in DOMAIN dead : dead[i] \in Letter
    BY <1>1
  <1>5. Foreign \notin inbox
    BY DEF TypeOK
  <1> QED
    BY <1>1, <1>2, <1>3, <1>4, <1>5, LenProperties

\* Settled records stay settled, and refused ones stay refused, as long as log,
\* inbox and dead letters only grow and terminal projections stay.
Grows ==
    /\ Len(log') \in Nat /\ Len(log) <= Len(log')
    /\ \A o \in 1 .. Len(log) : Event(o)' = Event(o)
    /\ inbox \subseteq inbox'
    /\ \A o \in 1 .. Len(log) : IsDead(o) => IsDead(o)'
    /\ \A o \in 1 .. Len(log) : Refused(o) => Refused(o)'

LEMMA HandledGrows ==
  ASSUME TypeOK, Grows, NEW o \in 1 .. Len(log), Handled(o)
  PROVE  Handled(o)'
  BY DEF Grows, Handled

LEMMA HandledBeforeGrows ==
  ASSUME TypeOK, Grows, NEW n \in 1 .. Len(log) + 1, HandledBefore(n)
  PROVE  HandledBefore(n)'
  <1> SUFFICES ASSUME NEW o \in 1 .. n - 1 PROVE Handled(o)'
    BY DEF HandledBefore
  <1>1. o \in 1 .. Len(log) /\ Handled(o)
    BY LogTyped DEF HandledBefore
  <1> QED
    BY <1>1, HandledGrows

\* A process that does not move stays fine, if what it read is still there.
LEMMA FineGrows ==
  ASSUME TypeOK, Grows, NEW p \in Proc, NEW owns \in BOOLEAN, NEW owned \in BOOLEAN,
         Fine(p, owned), owns => owned,
         p.pc = "write" /\ Unopposed(p)' =>
           Unopposed(p) /\ projection'[Event(p.at)[1]] = projection[Event(p.at)[1]]
  PROVE  Fine(p, owns)'
  <1>1. owns => p.pc # "off"
    BY DEF Fine
  <1>2. owns /\ p.pc = "poll" => p.next \in 1 .. Len(log') + 1 /\ HandledBefore(p.next)'
    BY HandledBeforeGrows, LogTyped DEF Fine, Grows
  <1>3. ASSUME p.pc \in {"apply", "effect", "write", "dead", "commit"}
        PROVE  /\ p.at \in 1 .. Len(log) /\ p.at \in 1 .. Len(log') /\ p.next = p.at + 1
               /\ HandledBefore(p.at)' /\ Event(p.at)' = Event(p.at)
    <2>1. p.at \in 1 .. Len(log) /\ p.next = p.at + 1 /\ HandledBefore(p.at)
      BY <1>3 DEF Fine
    <2>2. p.at \in 1 .. Len(log) + 1 /\ p.at \in 1 .. Len(log')
      BY <2>1, LogTyped DEF Grows
    <2> QED
      BY <2>1, <2>2, HandledBeforeGrows DEF Grows
  <1>4. p.pc \in {"apply", "effect", "write"} => Event(p.at)' # Foreign
    BY <1>3 DEF Fine
  <1>5. p.pc = "write" /\ Unopposed(p)' =>
          /\ projection'[Event(p.at)'[1]] = p.seen
          /\ ~Terminal(Event(p.at)'[1], p.seen)
    BY <1>3 DEF Fine
  <1>6. p.pc = "dead" =>
          \/ Event(p.at)' = Foreign /\ p.code = "malformed"
          \/ Refused(p.at)' /\ p.code = "lifecycle"
    BY <1>3 DEF Fine, Grows
  <1>7. p.pc = "commit" => Handled(p.at)'
    BY <1>3, HandledGrows DEF Fine
  <1> QED
    BY <1>1, <1>2, <1>3, <1>4, <1>5, <1>6, <1>7 DEF Fine, Foreign, Terminal

-----------------------------------------------------------------------------
(* Steps that leave the topic and the database alone *)

LEMMA SameDatabase ==
  ASSUME UNCHANGED <<log, db>>
  PROVE  /\ \A o : Event(o)' = Event(o) /\ Handled(o)' = Handled(o) /\ Refused(o)' = Refused(o)
         /\ \A n : HandledBefore(n)' = HandledBefore(n)
         /\ \A p : Unopposed(p)' = Unopposed(p)
         /\ \A p, owns : Fine(p, owns)' = Fine(p, owns)
  <1>1. \A o : Event(o)' = Event(o) /\ Handled(o)' = Handled(o) /\ Refused(o)' = Refused(o)
    BY DEF db, Event, Handled, IsDead, Refused, Terminal
  <1>2. \A n : HandledBefore(n)' = HandledBefore(n)
    BY <1>1 DEF HandledBefore
  <1>3. \A p : Unopposed(p)' = Unopposed(p)
    BY <1>1 DEF Unopposed, db
  <1>4. \A p, owns : Fine(p, owns)' = Fine(p, owns)
    BY <1>1, <1>2, <1>3 DEF Fine, Terminal, db
  <1> QED
    BY <1>1, <1>2, <1>3, <1>4

\* One process moves, and perhaps the assignment and the committed offset.
LEMMA ProcessMoves ==
  ASSUME Inv, NEW c \in Consumers, NEW x \in Proc, NEW owns \in BOOLEAN,
         proc' = [proc EXCEPT ![c] = x],
         UNCHANGED <<log, db>>,
         owner' \in Consumers \cup {None}, owns <=> owner' = c,
         \A d \in Consumers : d # c /\ owner' = d => owner = d,
         Fine(x, owns),
         committed' \in Nat \ {0}, committed' <= Len(log) + 1, HandledBefore(committed'),
         faults' \in Nat
  PROVE  Inv'
  <1>1. /\ proc \in [Consumers -> Proc] /\ proc' \in [Consumers -> Proc] /\ proc'[c] = x
        /\ \A d \in Consumers : d # c => proc'[d] = proc[d]
    BY DEF Inv, TypeOK, Proc, Tries
  <1>2. TypeOK'
    BY <1>1 DEF Inv, TypeOK, db, Proc, Tries
  <1>3. ProcsOK'
    <2> SUFFICES ASSUME NEW d \in Consumers
                 PROVE  Fine(proc[d], owner = d)'
      BY DEF ProcsOK
    <2>1. CASE d = c
      <3>1. Fine(x, owns)'
        BY SameDatabase
      <3> QED
        BY <1>1, <2>1, <3>1 DEF Fine
    <2>2. CASE d # c
      <3>1. PICK p \in Proc : p = proc[d] /\ proc'[d] = p
        BY <1>1, <2>2
      <3>2. PICK kept \in BOOLEAN : kept <=> owner' = d
        OBVIOUS
      <3>3. Fine(p, kept)
        BY <2>2, <3>1, <3>2 DEF Inv, ProcsOK, Fine
      <3>4. Fine(p, kept)'
        BY <3>3, SameDatabase
      <3> QED
        BY <3>1, <3>2, <3>4 DEF Fine
    <2> QED
      BY <2>1, <2>2
  <1>4. DeadOK'
    BY SameDatabase DEF Inv, DeadOK, db
  <1>5. CommittedIsHandled'
    BY SameDatabase DEF CommittedIsHandled, HandledBefore
  <1> QED
    BY <1>2, <1>3, <1>4, <1>5 DEF Inv

\* The committed offset and the fault counter of a step that leaves them alone.
LEMMA CommittedFine ==
  ASSUME Inv
  PROVE  /\ committed \in Nat \ {0} /\ committed <= Len(log) + 1 /\ HandledBefore(committed)
         /\ faults \in Nat /\ owner \in Consumers \cup {None}
  BY DEF Inv, TypeOK, CommittedIsHandled, HandledBefore

LEMMA FaultTyped ==
  ASSUME Inv, Fault
  PROVE  faults' \in Nat
  BY DEF Inv, TypeOK, Fault

LEMMA OffFine ==
  /\ Off \in Proc /\ Fine(Off, FALSE)
  /\ [Off EXCEPT !.pc = "poll"] \in Proc /\ Fine([Off EXCEPT !.pc = "poll"], FALSE)
  <1>1. Off \in Proc /\ [Off EXCEPT !.pc = "poll"] \in Proc
    BY TriesTyped DEF Off, Proc
  <1>2. Off.pc = "off" /\ [Off EXCEPT !.pc = "poll"].pc = "poll"
    BY DEF Off
  <1> QED
    BY <1>1, <1>2 DEF Fine

\* The process ends, whatever it was doing.
LEMMA StopProcKeepsInv ==
  ASSUME Inv, NEW c \in Consumers, StopProc(c), UNCHANGED <<log, db>>,
         committed' \in Nat \ {0}, committed' <= Len(log) + 1, HandledBefore(committed'),
         faults' \in Nat
  PROVE  Inv'
  <1>1. owner' \in Consumers \cup {None} /\ owner' # c
    BY NoneAssumption, CommittedFine DEF StopProc
  <1>2. proc' = [proc EXCEPT ![c] = Off]
    BY DEF StopProc, Step
  <1>3. \A d \in Consumers : d # c /\ owner' = d => owner = d
    BY NoneAssumption DEF StopProc
  <1>4. ~(owner' = c)
    BY <1>1
  <1>5. FALSE \in BOOLEAN /\ Off \in Proc /\ Fine(Off, FALSE)
    BY OffFine
  <1> QED
    BY <1>1, <1>2, <1>3, <1>4, <1>5, ProcessMoves

LEMMA StartKeepsInv ==
  ASSUME Inv, NEW c \in Consumers, Start(c)
  PROVE  Inv'
  <1> DEFINE x == [Off EXCEPT !.pc = "poll"]
  <1>1. owner # c
    BY DEF Start, Inv, ProcsOK, Fine
  <1>2. /\ proc' = [proc EXCEPT ![c] = x] /\ x \in Proc /\ Fine(x, FALSE)
        /\ UNCHANGED <<log, owner, committed, db, faults>>
    BY OffFine DEF Start, Step
  <1> HIDE DEF x
  <1> QED
    BY <1>1, <1>2, CommittedFine, ProcessMoves

LEMMA AssignKeepsInv ==
  ASSUME Inv, NEW c \in Consumers, Assign(c)
  PROVE  Inv'
  <1> DEFINE x == [proc[c] EXCEPT !.next = committed]
  <1>1. proc[c] \in Proc /\ committed \in Nat
    BY CommittedFine DEF Inv, TypeOK, Proc, Tries
  <1>2. x \in Proc /\ x.pc = "poll" /\ x.next = committed
    BY <1>1 DEF Proc, Assign
  <1>3. Len(log) \in Nat /\ x.next \in 1 .. Len(log) + 1 /\ HandledBefore(x.next)
    BY <1>2, LogTyped, CommittedFine DEF Inv
  <1>4. Fine(x, TRUE)
    BY <1>2, <1>3 DEF Fine
  <1>5. /\ proc' = [proc EXCEPT ![c] = x] /\ owner' = c
        /\ UNCHANGED <<log, committed, db, faults>>
    BY DEF Assign, Step
  <1> HIDE DEF x
  <1> QED
    BY <1>2, <1>4, <1>5, CommittedFine, ProcessMoves

LEMMA RevokeKeepsInv ==
  ASSUME Inv, Revoke
  PROVE  Inv'
  <1>1. /\ owner \in Consumers /\ owner' = None
        /\ UNCHANGED <<log, committed, db, proc>>
    BY CommittedFine DEF Revoke
  <1>2. PICK c \in Consumers : c = owner
    BY <1>1
  <1>3. PICK x \in Proc : x = proc[c]
    BY DEF Inv, TypeOK, Proc, Tries
  <1>4. proc' = [proc EXCEPT ![c] = x]
    BY <1>1, <1>3 DEF Inv, TypeOK
  <1>5. Fine(x, FALSE)
    BY <1>3 DEF Inv, ProcsOK, Fine
  <1>6. owner' # c /\ owner' \in Consumers \cup {None} /\ faults' \in Nat
    BY <1>1, <1>2, NoneAssumption, FaultTyped DEF Revoke
  <1>7. \A d \in Consumers : owner' # d
    BY <1>1, NoneAssumption
  <1> QED
    BY <1>1, <1>4, <1>5, <1>6, <1>7, CommittedFine, ProcessMoves

LEMMA StopKeepsInv ==
  ASSUME Inv, NEW c \in Consumers, Stop(c)
  PROVE  Inv'
  BY StopProcKeepsInv, CommittedFine, FaultTyped DEF Stop

LEMMA PollKeepsInv ==
  ASSUME Inv, NEW c \in Consumers, Poll(c)
  PROVE  Inv'
  <1> DEFINE p == proc[c]
             o == p.next
             foreign == Event(o) = Foreign
             x == [p EXCEPT !.at = p.next, !.next = @ + 1, !.tries = 1,
                            !.code = IF Event(p.next) = Foreign THEN "malformed" ELSE "none",
                            !.pc = IF Event(p.next) = Foreign THEN "dead" ELSE "apply"]
  <1>1. p \in Proc /\ p.pc = "poll" /\ owner = c /\ o \in DOMAIN log
    BY DEF Poll, Inv, TypeOK, Proc, Tries
  <1>2. o \in 1 .. Len(log) /\ HandledBefore(o) /\ o \in Nat
    <2>1. o \in 1 .. Len(log)
      BY <1>1 DEF Inv, TypeOK
    <2> QED
      BY <1>1, <2>1 DEF Inv, ProcsOK, Fine
  <1>3. /\ x \in Proc /\ x.at = o /\ x.next = o + 1
        /\ x.pc = (IF foreign THEN "dead" ELSE "apply")
        /\ x.code = (IF foreign THEN "malformed" ELSE "none")
    <2>1. o + 1 \in Nat /\ o \in Nat
      BY <1>2
    <2>2. CASE foreign
      <3>1. x = [p EXCEPT !.at = o, !.next = o + 1, !.tries = 1, !.code = "malformed", !.pc = "dead"]
        BY <2>2
      <3> QED
        BY <1>1, <2>1, <2>2, <3>1, TriesTyped DEF Proc
    <2>3. CASE ~foreign
      <3>1. x = [p EXCEPT !.at = o, !.next = o + 1, !.tries = 1, !.code = "none", !.pc = "apply"]
        BY <2>3
      <3> QED
        BY <1>1, <2>1, <2>3, <3>1, TriesTyped DEF Proc
    <2> QED
      BY <2>2, <2>3
  <1>4. Fine(x, TRUE)
    BY <1>2, <1>3 DEF Fine
  <1>5. proc' = [proc EXCEPT ![c] = x] /\ UNCHANGED <<log, owner, committed, db, faults>>
    BY DEF Poll, Step
  <1> HIDE DEF x
  <1> QED
    BY <1>1, <1>3, <1>4, <1>5, CommittedFine, ProcessMoves

LEMMA ReadInboxKeepsInv ==
  ASSUME Inv, NEW c \in Consumers, ReadInbox(c)
  PROVE  Inv'
  <1> DEFINE p == proc[c]
             event == Event(p.at)
             x1 == [p EXCEPT !.pc = "commit", !.tries = 1]
             x2 == [p EXCEPT !.pc = "effect"]
  <1>1. PICK owns \in BOOLEAN : owns <=> owner = c
    OBVIOUS
  <1>2. /\ p \in Proc /\ p.pc = "apply" /\ p.at \in 1 .. Len(log) /\ p.next = p.at + 1
        /\ HandledBefore(p.at) /\ event # Foreign
    BY DEF ReadInbox, Inv, TypeOK, ProcsOK, Fine, Proc, Tries
  <1>3. UNCHANGED <<log, owner, committed, db, faults>>
    BY DEF ReadInbox
  <1>4. CASE IsDuplicate(event)
    <2>1. proc' = [proc EXCEPT ![c] = x1]
      BY <1>4 DEF ReadInbox, Step
    <2>2. /\ x1 \in Proc /\ x1.pc = "commit" /\ x1.at = p.at /\ x1.next = p.next
      BY <1>2, TriesTyped DEF Proc
    <2>3. Fine(x1, owns)
      BY <1>2, <1>4, <2>2 DEF Fine, Handled, IsDuplicate
    <2> HIDE DEF x1
    <2> QED
      BY <1>1, <1>3, <2>1, <2>2, <2>3, CommittedFine, ProcessMoves
  <1>5. CASE ~IsDuplicate(event)
    <2>1. proc' = [proc EXCEPT ![c] = x2]
      BY <1>5 DEF ReadInbox, Step
    <2>2. /\ x2 \in Proc /\ x2.pc = "effect" /\ x2.at = p.at /\ x2.next = p.next
      BY <1>2 DEF Proc
    <2>3. Fine(x2, owns)
      BY <1>2, <2>2 DEF Fine
    <2> HIDE DEF x2
    <2> QED
      BY <1>1, <1>3, <2>1, <2>2, <2>3, CommittedFine, ProcessMoves
  <1> QED
    BY <1>4, <1>5

LEMMA ReadProjectionKeepsInv ==
  ASSUME Inv, NEW c \in Consumers, ReadProjection(c)
  PROVE  Inv'
  <1> DEFINE p == proc[c]
             event == Event(p.at)
             j == event[1]
             x1 == [p EXCEPT !.pc = "dead", !.code = "lifecycle", !.tries = 1]
             x2 == [p EXCEPT !.pc = "write", !.seen = projection[j]]
  <1>1. PICK owns \in BOOLEAN : owns <=> owner = c
    OBVIOUS
  <1>2. /\ p \in Proc /\ p.pc = "effect" /\ p.at \in 1 .. Len(log) /\ p.next = p.at + 1
        /\ HandledBefore(p.at) /\ event # Foreign
    BY DEF ReadProjection, Inv, TypeOK, ProcsOK, Fine, Proc, Tries
  <1>3. j \in Jobs /\ projection[j] \in Nat /\ Terminal(j, 0) = FALSE
    BY <1>2, LogTyped, StoryAssumption DEF Inv, TypeOK, Terminal
  <1>4. UNCHANGED <<log, owner, committed, db, faults>>
    BY DEF ReadProjection
  <1>5. CASE Refuses(j)
    <2>1. proc' = [proc EXCEPT ![c] = x1]
      BY <1>5 DEF ReadProjection, Step
    <2>2. /\ x1 \in Proc /\ x1.pc = "dead" /\ x1.at = p.at /\ x1.next = p.next
          /\ x1.code = "lifecycle"
      BY <1>2, TriesTyped DEF Proc
    <2>3. Refused(p.at)
      BY <1>2, <1>5 DEF Refused, Refuses
    <2>4. Fine(x1, owns)
      BY <1>2, <2>2, <2>3 DEF Fine
    <2> HIDE DEF x1
    <2> QED
      BY <1>1, <1>4, <2>1, <2>2, <2>4, CommittedFine, ProcessMoves
  <1>6. CASE ~Refuses(j)
    <2>1. proc' = [proc EXCEPT ![c] = x2]
      BY <1>6 DEF ReadProjection, Step
    <2>2. /\ x2 \in Proc /\ x2.pc = "write" /\ x2.at = p.at /\ x2.next = p.next
          /\ x2.seen = projection[j]
      BY <1>2, <1>3 DEF Proc
    <2>3. ~Terminal(j, projection[j])
      BY <1>3, <1>6 DEF Refuses
    <2>4. Fine(x2, owns)
      BY <1>2, <2>2, <2>3 DEF Fine
    <2> HIDE DEF x2
    <2> QED
      BY <1>1, <1>4, <2>1, <2>2, <2>4, CommittedFine, ProcessMoves
  <1> QED
    BY <1>5, <1>6

LEMMA ApplyConflictKeepsInv ==
  ASSUME Inv, NEW c \in Consumers, ApplyConflict(c) \/ CommitRefused(c)
  PROVE  Inv'
  BY StopProcKeepsInv, CommittedFine DEF ApplyConflict, CommitRefused

LEMMA DatabaseFailsKeepsInv ==
  ASSUME Inv, NEW c \in Consumers, DatabaseFails(c)
  PROVE  Inv'
  <1> DEFINE p == proc[c]
             x == [p EXCEPT !.pc = IF @ = "dead" THEN "dead" ELSE "apply", !.tries = @ + 1]
  <1>1. PICK owns \in BOOLEAN : owns <=> owner = c
    OBVIOUS
  <1>2. /\ p \in Proc /\ p.pc \in {"apply", "effect", "write", "dead"} /\ p.tries < MaxAttempts
        /\ Fine(p, owns)
    BY <1>1 DEF DatabaseFails, Inv, TypeOK, ProcsOK, Fine, Proc, Tries
  <1>3. /\ x \in Proc /\ x.at = p.at /\ x.next = p.next /\ x.code = p.code
        /\ x.pc = (IF p.pc = "dead" THEN "dead" ELSE "apply")
    BY <1>2, TriesTyped DEF Proc
  <1>4. Fine(x, owns)
    BY <1>2, <1>3 DEF Fine
  <1>5. /\ proc' = [proc EXCEPT ![c] = x] /\ UNCHANGED <<log, owner, committed, db>>
        /\ faults' \in Nat
    BY FaultTyped DEF DatabaseFails, Step
  <1> HIDE DEF x
  <1> QED
    BY <1>1, <1>3, <1>4, <1>5, CommittedFine, ProcessMoves

LEMMA CommitOffsetKeepsInv ==
  ASSUME Inv, NEW c \in Consumers, CommitOffset(c) \/ CommitFails(c)
  PROVE  Inv'
  <1> DEFINE p == proc[c]
             x1 == [p EXCEPT !.pc = "poll", !.at = 0, !.tries = 0, !.seen = 0, !.code = "none"]
             x2 == [p EXCEPT !.tries = @ + 1]
             x3 == [p EXCEPT !.pc = "poll", !.at = 0, !.tries = 0, !.seen = 0]
  <1>1. /\ p \in Proc /\ p.pc = "commit" /\ owner = c /\ p.at \in 1 .. Len(log)
        /\ p.next = p.at + 1 /\ HandledBefore(p.at) /\ Handled(p.at) /\ Len(log) \in Nat
    BY LogTyped DEF CommitOffset, CommitFails, Inv, TypeOK, ProcsOK, Fine, Proc, Tries
  <1>2. HandledBefore(p.at + 1)
    <2> SUFFICES ASSUME NEW o \in 1 .. (p.at + 1) - 1 PROVE Handled(o)
      BY DEF HandledBefore
    <2>1. o = p.at \/ o \in 1 .. p.at - 1
      BY <1>1
    <2> QED
      BY <1>1, <2>1 DEF HandledBefore
  <1>3. /\ committed' \in {committed, p.at + 1}
        /\ UNCHANGED <<log, db>>
        /\ faults' \in Nat
    BY CommittedFine, FaultTyped DEF CommitOffset, CommitTarget, CommitFails
  <1>4. committed' \in Nat \ {0} /\ committed' <= Len(log) + 1 /\ HandledBefore(committed')
    <2>1. CASE committed' = committed
      BY <2>1, CommittedFine
    <2>2. CASE committed' = p.at + 1
      BY <1>1, <1>2, <2>2
    <2> QED
      BY <1>3, <2>1, <2>2
  <1>5. CASE proc' = [proc EXCEPT ![c] = x1] /\ owner' = owner
    <2>1. x1 \in Proc /\ x1.pc = "poll" /\ x1.next = p.at + 1
      BY <1>1, TriesTyped DEF Proc
    <2>2. Fine(x1, TRUE)
      BY <1>1, <1>2, <2>1 DEF Fine
    <2> HIDE DEF x1
    <2> QED
      BY <1>1, <1>3, <1>4, <1>5, <2>1, <2>2, CommittedFine, ProcessMoves
  <1>6. CASE proc' = [proc EXCEPT ![c] = x2] /\ owner' = owner /\ p.tries < MaxAttempts
    <2>1. x2 \in Proc /\ x2.pc = "commit" /\ x2.next = p.next /\ x2.at = p.at
      BY <1>1, <1>6, TriesTyped DEF Proc
    <2>2. Fine(x2, TRUE)
      BY <1>1, <2>1 DEF Fine
    <2> HIDE DEF x2
    <2> QED
      BY <1>1, <1>3, <1>4, <1>6, <2>1, <2>2, CommittedFine, ProcessMoves
  <1>7. CASE proc' = [proc EXCEPT ![c] = x3] /\ owner' = owner
    <2>1. x3 \in Proc /\ x3.pc = "poll" /\ x3.next = p.at + 1
      BY <1>1, TriesTyped DEF Proc
    <2>2. Fine(x3, TRUE)
      BY <1>1, <1>2, <2>1 DEF Fine
    <2> HIDE DEF x3
    <2> QED
      BY <1>1, <1>3, <1>4, <1>7, <2>1, <2>2, CommittedFine, ProcessMoves
  <1>8. CASE StopProc(c)
    BY <1>3, <1>4, <1>8, StopProcKeepsInv
  <1> QED
    BY <1>5, <1>6, <1>7, <1>8 DEF CommitOffset, CommitFails, Step

-----------------------------------------------------------------------------
(* Steps that write the topic or the database *)

\* A process that does not move, while log and tables grow.
LEMMA OtherFine ==
  ASSUME Inv, Grows, NEW d \in Consumers, proc'[d] = proc[d], owner' = owner,
         \A p \in Proc : p = proc[d] /\ p.pc = "write" /\ Unopposed(p)' =>
           Unopposed(p) /\ projection'[Event(p.at)[1]] = projection[Event(p.at)[1]]
  PROVE  Fine(proc[d], owner = d)'
  <1>1. PICK p \in Proc : p = proc[d]
    BY DEF Inv, TypeOK, Proc, Tries
  <1>2. PICK owns \in BOOLEAN : owns <=> owner = d
    OBVIOUS
  <1>3. Fine(p, owns)
    BY <1>1, <1>2 DEF Inv, ProcsOK, Fine
  <1>4. Fine(p, owns)'
    BY <1>1, <1>3, FineGrows DEF Inv
  <1> QED
    BY <1>1, <1>2, <1>4 DEF Fine

LEMMA CommittedGrows ==
  ASSUME Inv, Grows, committed' = committed
  PROVE  CommittedIsHandled'
  <1>1. Len(log) \in Nat /\ committed \in 1 .. Len(log) + 1 /\ HandledBefore(committed)
    BY LogTyped, CommittedFine DEF Inv
  <1>2. PICK n \in 1 .. Len(log) + 1 : n = committed
    BY <1>1
  <1>3. HandledBefore(n)'
    BY <1>1, <1>2, HandledBeforeGrows DEF Inv
  <1> QED
    BY <1>1, <1>2, <1>3 DEF CommittedIsHandled, HandledBefore, Grows

\* A record more in the topic.
LEMMA AppendsRecord ==
  ASSUME Inv, NEW r \in Records, log' = Append(log, r),
         UNCHANGED <<owner, committed, db, proc, faults>>
  PROVE  Inv'
  <1>1. /\ log' \in Seq(Records) /\ Len(log') = Len(log) + 1 /\ Len(log) \in Nat
        /\ \A o \in 1 .. Len(log) : Event(o)' = Event(o)
    <2>1. log \in Seq(Records)
      BY DEF Inv, TypeOK
    <2> QED
      BY <2>1, LenProperties, AppendProperties DEF Event
  <1>2. TypeOK'
    BY <1>1 DEF Inv, TypeOK, db
  <1>3. Grows
    BY <1>1 DEF Grows, IsDead, Refused, Terminal, db
  <1>4. ProcsOK'
    <2> SUFFICES ASSUME NEW d \in Consumers PROVE Fine(proc[d], owner = d)'
      BY DEF ProcsOK
    <2>1. ASSUME NEW p \in Proc, p = proc[d], p.pc = "write", Unopposed(p)'
          PROVE  Unopposed(p) /\ projection'[Event(p.at)[1]] = projection[Event(p.at)[1]]
      <3>1. Event(p.at)' = Event(p.at)
        BY <1>1, <2>1 DEF Inv, ProcsOK, Fine
      <3> QED
        BY <2>1, <3>1 DEF Unopposed, db
    <2> QED
      BY <1>3, <2>1, OtherFine
  <1>5. DeadOK'
    <2>1. \A i \in DOMAIN dead : dead[i].offset \in 1 .. Len(log)
      BY DEF Inv, DeadOK
    <2>2. \A i \in DOMAIN dead : /\ dead[i].offset \in 1 .. Len(log')
                                 /\ Event(dead[i].offset)' = Event(dead[i].offset)
                                 /\ Refused(dead[i].offset) => Refused(dead[i].offset)'
      BY <1>1, <1>3, <2>1 DEF Grows, db
    <2> QED
      BY <2>2 DEF Inv, DeadOK, Foreign, db
  <1> QED
    BY <1>2, <1>3, <1>4, <1>5, CommittedGrows DEF Inv

LEMMA WriteKeepsInv ==
  ASSUME Inv, Write
  PROVE  Inv'
  <1>1. UNCHANGED <<owner, committed, db, proc, faults>>
    BY DEF Write
  <1>2. ASSUME log' = Append(log, Foreign)
        PROVE  Inv'
    BY <1>1, <1>2, AppendsRecord DEF Records
  <1>3. ASSUME NEW j \in Jobs, NEW n \in 1 .. StoryLength[j], log' = Append(log, <<j, n>>)
        PROVE  Inv'
    <2>1. <<j, n>> \in Records
      BY StoryAssumption DEF Records
    <2> QED
      BY <1>1, <1>3, <2>1, AppendsRecord
  <1> QED
    BY <1>2, <1>3 DEF Write

\* Two processes whose writes would both go through hold the same record: each has
\* settled all records before its own, and its own is not settled.
LEMMA WritersShareRecord ==
  ASSUME Inv, NEW c \in Consumers, NEW d \in Consumers,
         proc[c].pc = "write", Unopposed(proc[c]),
         proc[d].pc = "write", Unopposed(proc[d])
  PROVE  proc[c].at = proc[d].at
  <1>1. ASSUME NEW e \in Consumers, proc[e].pc = "write", Unopposed(proc[e])
        PROVE  /\ proc[e].at \in 1 .. Len(log) /\ HandledBefore(proc[e].at)
               /\ ~Handled(proc[e].at)
    <2>1. /\ proc[e].at \in 1 .. Len(log) /\ HandledBefore(proc[e].at)
          /\ Event(proc[e].at) # Foreign /\ Event(proc[e].at) \notin inbox
          /\ ~Terminal(Event(proc[e].at)[1], projection[Event(proc[e].at)[1]])
      BY <1>1 DEF Inv, ProcsOK, Fine, Unopposed
    <2>2. ~IsDead(proc[e].at)
      <3> SUFFICES ASSUME NEW i \in DOMAIN dead, dead[i].offset = proc[e].at PROVE FALSE
        BY DEF IsDead
      <3>1. dead[i].code \in {"malformed", "lifecycle"}
        BY LogTyped DEF Inv, Letter
      <3> QED
        BY <2>1, <3>1 DEF Inv, DeadOK, Refused
    <2> QED
      BY <2>1, <2>2 DEF Handled
  <1>2. PICK a \in 1 .. Len(log) : a = proc[c].at
    BY <1>1
  <1>3. PICK b \in 1 .. Len(log) : b = proc[d].at
    BY <1>1
  <1>4. HandledBefore(a) /\ ~Handled(a) /\ HandledBefore(b) /\ ~Handled(b)
    BY <1>1, <1>2, <1>3
  <1>5. ~(a < b) /\ ~(b < a)
    BY <1>4, LogTyped DEF HandledBefore, Inv
  <1> QED
    BY <1>2, <1>3, <1>5, LogTyped DEF Inv

\* The writes of one transaction: the inbox row and the projection.  c ends up
\* with the record applied, and either knows it or has to try again.
LEMMA ApplyKeepsInv ==
  ASSUME Inv, NEW c \in Consumers, Apply(c)
  PROVE  Inv'
  <1> DEFINE p == proc[c]
             event == Event(p.at)
             j == event[1]
             x1 == [p EXCEPT !.pc = "commit", !.tries = 1]
             x2 == [p EXCEPT !.pc = "apply", !.tries = @ + 1]
  <1>1. /\ p \in Proc /\ p.pc = "write" /\ Unopposed(p)
        /\ p.at \in 1 .. Len(log) /\ p.next = p.at + 1 /\ HandledBefore(p.at)
        /\ event # Foreign /\ event \notin inbox
    BY DEF Apply, Conflict, Unopposed, Inv, TypeOK, Proc, Tries, ProcsOK, Fine
  <1>2. /\ j \in Jobs /\ event[2] \in Nat \ {0} /\ event \in Records \ {Foreign}
        /\ ~Terminal(j, projection[j])
    BY <1>1, LogTyped DEF Inv, ProcsOK, Fine
  <1>3. /\ inbox' = inbox \cup {event}
        /\ projection' = [projection EXCEPT ![j] = event[2]]
        /\ UNCHANGED <<log, owner, committed, dead>>
    BY DEF Apply
  <1>4. /\ \A o : Event(o)' = Event(o)
        /\ \A k \in Jobs : k # j => projection'[k] = projection[k]
        /\ Len(log') = Len(log) /\ Len(log) \in Nat
    BY <1>3, LogTyped DEF Event, Inv, TypeOK
  <1>5. Grows
    <2>1. \A o : IsDead(o)' = IsDead(o)
      BY <1>3 DEF IsDead
    <2>2. ASSUME NEW o \in 1 .. Len(log), Refused(o)
          PROVE  Refused(o)'
      <3>1. Event(o) # Foreign /\ Event(o)[1] \in Jobs /\ Event(o)[1] # j
        BY <1>2, <2>2, LogTyped DEF Refused, Inv
      <3> QED
        BY <1>3, <1>4, <2>2, <3>1 DEF Refused, Terminal, Foreign
    <2> QED
      BY <1>3, <1>4, <2>1, <2>2 DEF Grows
  <1>6. /\ x1 \in Proc /\ x1.pc = "commit" /\ x1.at = p.at /\ x1.next = p.next
        /\ p.tries < MaxAttempts =>
             x2 \in Proc /\ x2.pc = "apply" /\ x2.at = p.at /\ x2.next = p.next
    BY <1>1, TriesTyped DEF Proc
  <1>7. PICK x \in Proc : /\ proc' = [proc EXCEPT ![c] = x]
                          /\ x.pc \in {"apply", "commit"} /\ x.at = p.at /\ x.next = p.next
    <2>1. \/ proc' = [proc EXCEPT ![c] = x1]
          \/ proc' = [proc EXCEPT ![c] = x2] /\ p.tries < MaxAttempts
      BY DEF Apply, Step
    <2> HIDE DEF x1, x2
    <2> QED
      BY <1>6, <2>1
  <1>8. faults' \in Nat
    BY FaultTyped, CommittedFine DEF Apply
  <1>9. /\ proc' \in [Consumers -> Proc] /\ proc'[c] = x
        /\ \A d \in Consumers : d # c => proc'[d] = proc[d]
    BY <1>7 DEF Inv, TypeOK, Proc, Tries
  <1>10. TypeOK'
    <2>1. inbox' \subseteq Records \ {Foreign} /\ projection' \in [Jobs -> Nat]
      BY <1>2, <1>3 DEF Inv, TypeOK
    <2> QED
      BY <1>3, <1>8, <1>9, <2>1 DEF Inv, TypeOK, Proc, Tries
  <1>11. ProcsOK'
    <2> SUFFICES ASSUME NEW d \in Consumers PROVE Fine(proc[d], owner = d)'
      BY DEF ProcsOK
    <2>1. CASE d = c
      <3>1. PICK a \in 1 .. Len(log) : a = p.at
        BY <1>1
      <3>2. HandledBefore(a)' /\ Handled(a)' /\ Event(a)' # Foreign
        <4>1. HandledBefore(a)'
          BY <1>1, <1>4, <1>5, <3>1, HandledBeforeGrows DEF Inv
        <4> QED
          BY <1>1, <1>3, <1>4, <3>1, <4>1 DEF Handled
      <3> QED
        BY <1>1, <1>4, <1>7, <1>9, <2>1, <3>1, <3>2 DEF Fine
    <2>2. CASE d # c
      <3>1. ASSUME NEW q \in Proc, q = proc[d], q.pc = "write", Unopposed(q)'
            PROVE  Unopposed(q) /\ projection'[Event(q.at)[1]] = projection[Event(q.at)[1]]
        <4>1. Event(q.at) # event /\ Event(q.at) \notin inbox /\ q.at # p.at
          BY <1>3, <1>4, <3>1 DEF Unopposed
        <4>2. ~Unopposed(q)
          BY <1>1, <3>1, <4>1, WritersShareRecord
        <4>3. Event(q.at)[1] \in Jobs /\ q.seen = 0 /\ projection[Event(q.at)[1]] # 0
          <5>1. q.at \in 1 .. Len(log) /\ Event(q.at) # Foreign
            BY <3>1 DEF Inv, ProcsOK, Fine
          <5> QED
            BY <4>1, <4>2, <5>1, LogTyped DEF Unopposed, Inv
        <4>4. projection'[Event(q.at)[1]] # 0
          BY <1>2, <1>3, <1>4, <4>3 DEF Inv, TypeOK
        <4> QED
          BY <1>4, <3>1, <4>3, <4>4 DEF Unopposed
      <3> QED
        BY <1>3, <1>5, <1>9, <2>2, <3>1, OtherFine
    <2> QED
      BY <2>1, <2>2
  <1>12. DeadOK'
    BY <1>3, <1>4, <1>5 DEF Inv, DeadOK, Grows, Foreign
  <1> QED
    BY <1>3, <1>5, <1>10, <1>11, <1>12, CommittedGrows DEF Inv

\* d holds the letters of dead, offsets and codes unchanged, and one for this
\* letter's offset, which is new only if there was none.
HasUpserted(d, letter) ==
    /\ d \in Seq(Letter)
    /\ \A i \in DOMAIN dead :
         i \in DOMAIN d /\ d[i].offset = dead[i].offset /\ d[i].code = dead[i].code
    /\ \A i \in DOMAIN d : i \notin DOMAIN dead =>
         /\ i = Len(dead) + 1 /\ d[i] = letter
         /\ \A k \in DOMAIN dead : dead[k].offset # letter.offset
    /\ \E i \in DOMAIN d : d[i].offset = letter.offset

LEMMA UpsertedEffect ==
  ASSUME dead \in Seq(Letter), NEW letter \in Letter
  PROVE  HasUpserted(Upserted(dead, letter.offset, letter), letter)
  <1> DEFINE o == letter.offset
             Counted(i) == [dead[i] EXCEPT !.count = dead[i].count + 1]
             d1 == [i \in DOMAIN dead |-> IF dead[i].offset = o THEN Counted(i) ELSE dead[i]]
             d2 == Append(dead, letter)
  <1>1. CASE \E i \in DOMAIN dead : dead[i].offset = o
    <2>1. Upserted(dead, o, letter) = d1
      BY <1>1 DEF Upserted
    <2>2. \A i \in DOMAIN dead : /\ dead[i] \in Letter /\ Counted(i) \in Letter
                                 /\ Counted(i).offset = dead[i].offset
                                 /\ Counted(i).code = dead[i].code
      <3>1. \A i \in DOMAIN dead : dead[i] \in Letter
        OBVIOUS
      <3>2. ASSUME NEW l \in Letter
            PROVE  /\ [l EXCEPT !.count = l.count + 1] \in Letter
                   /\ [l EXCEPT !.count = l.count + 1].offset = l.offset
                   /\ [l EXCEPT !.count = l.count + 1].code = l.code
        <4>1. l.count + 1 \in Nat \ {0}
          BY DEF Letter
        <4> QED
          BY <4>1 DEF Letter
      <3> QED
        BY <3>1, <3>2
    <2>3. d1 \in [1 .. Len(dead) -> Letter] /\ Len(dead) \in Nat /\ DOMAIN d1 = DOMAIN dead
      BY <2>2, LenProperties
    <2>4. d1 \in Seq(Letter)
      BY <2>3, SeqDef
    <2>5. \A i \in DOMAIN dead : d1[i].offset = dead[i].offset /\ d1[i].code = dead[i].code
      BY <2>2
    <2> HIDE DEF d1
    <2> QED
      BY <1>1, <2>1, <2>3, <2>4, <2>5 DEF HasUpserted
  <1>2. CASE ~\E i \in DOMAIN dead : dead[i].offset = o
    <2>1. Upserted(dead, o, letter) = d2
      BY <1>2 DEF Upserted
    <2>2. /\ d2 \in Seq(Letter) /\ Len(d2) = Len(dead) + 1 /\ Len(dead) \in Nat
          /\ d2[Len(dead) + 1] = letter
          /\ \A i \in 1 .. Len(dead) : d2[i] = dead[i]
      BY LenProperties, AppendProperties
    <2> HIDE DEF d2
    <2>3. /\ \A i : i \in DOMAIN d2 <=> i \in 1 .. Len(dead) + 1
          /\ \A i : i \in DOMAIN dead <=> i \in 1 .. Len(dead)
      BY <2>2
    <2>4. \A i : i \in DOMAIN d2 /\ i \notin DOMAIN dead => i = Len(dead) + 1
      BY <2>2, <2>3
    <2>5. \A i : i \in DOMAIN dead => i \in DOMAIN d2 /\ d2[i] = dead[i]
      BY <2>2, <2>3
    <2>6. Len(dead) + 1 \in DOMAIN d2
      BY <2>2, <2>3
    <2> QED
      BY <1>2, <2>1, <2>2, <2>4, <2>5, <2>6 DEF HasUpserted
  <1> QED
    BY <1>1, <1>2

LEMMA DeadLetterKeepsInv ==
  ASSUME Inv, NEW c \in Consumers, DeadLetter(c)
  PROVE  Inv'
  <1> DEFINE p == proc[c]
             letter == [offset |-> p.at, code |-> p.code, count |-> 1]
             x1 == [p EXCEPT !.pc = "commit", !.tries = 1]
             x2 == [p EXCEPT !.tries = @ + 1]
  <1>1. /\ p \in Proc /\ p.pc = "dead"
        /\ p.at \in 1 .. Len(log) /\ p.next = p.at + 1 /\ HandledBefore(p.at)
        /\ \/ Event(p.at) = Foreign /\ p.code = "malformed"
           \/ Refused(p.at) /\ p.code = "lifecycle"
        /\ Len(log) \in Nat
    BY LogTyped DEF DeadLetter, Inv, TypeOK, Proc, Tries, ProcsOK, Fine
  <1>2. letter \in Letter /\ letter.offset = p.at /\ letter.code = p.code
    BY <1>1 DEF Letter
  <1>3. /\ dead' = Upserted(dead, p.at, letter)
        /\ UNCHANGED <<log, owner, committed, inbox, projection>>
    BY DEF DeadLetter
  <1>4. /\ dead' \in Seq(Letter)
        /\ \A i \in DOMAIN dead :
             i \in DOMAIN dead' /\ dead'[i].offset = dead[i].offset /\ dead'[i].code = dead[i].code
        /\ \A i \in DOMAIN dead' : i \notin DOMAIN dead =>
             /\ i = Len(dead) + 1 /\ dead'[i] = letter
             /\ \A k \in DOMAIN dead : dead[k].offset # p.at
        /\ \E i \in DOMAIN dead' : dead'[i].offset = p.at
    <2>1. dead \in Seq(Letter)
      BY DEF Inv, TypeOK, Letter
    <2>2. dead' = Upserted(dead, letter.offset, letter)
      BY <1>2, <1>3
    <2> HIDE DEF letter
    <2>3. HasUpserted(dead', letter)
      BY <1>2, <2>1, <2>2, UpsertedEffect
    <2> QED
      BY <1>2, <2>3 DEF HasUpserted
  <1>5. /\ \A o : Event(o)' = Event(o) /\ Refused(o)' = Refused(o)
        /\ \A o : IsDead(o) => IsDead(o)'
    BY <1>3, <1>4 DEF Event, Refused, Terminal, IsDead
  <1>6. Grows
    BY <1>1, <1>3, <1>5 DEF Grows
  <1>7. /\ x1 \in Proc /\ x1.pc = "commit" /\ x1.at = p.at /\ x1.next = p.next
        /\ p.tries < MaxAttempts =>
             /\ x2 \in Proc /\ x2.pc = "dead" /\ x2.at = p.at /\ x2.next = p.next
             /\ x2.code = p.code
    BY <1>1, TriesTyped DEF Proc
  <1>8. PICK x \in Proc : /\ proc' = [proc EXCEPT ![c] = x]
                          /\ x.at = p.at /\ x.next = p.next
                          /\ x.pc = "commit" \/ (x.pc = "dead" /\ x.code = p.code)
    <2>1. \/ proc' = [proc EXCEPT ![c] = x1]
          \/ proc' = [proc EXCEPT ![c] = x2] /\ p.tries < MaxAttempts
      BY DEF DeadLetter, Step
    <2> HIDE DEF x1, x2
    <2>2. CASE proc' = [proc EXCEPT ![c] = x1]
      <3>1. x1 \in Proc /\ x1.at = p.at /\ x1.next = p.next /\ x1.pc = "commit"
        BY <1>7
      <3> QED
        BY <2>2, <3>1
    <2>3. CASE proc' = [proc EXCEPT ![c] = x2] /\ p.tries < MaxAttempts
      BY <1>7, <2>3
    <2> QED
      BY <2>1, <2>2, <2>3
  <1>9. faults' \in Nat
    BY FaultTyped, CommittedFine DEF DeadLetter
  <1>10. /\ proc' \in [Consumers -> Proc] /\ proc'[c] = x
         /\ \A d \in Consumers : d # c => proc'[d] = proc[d]
    BY <1>8 DEF Inv, TypeOK, Proc, Tries
  <1>11. TypeOK'
    BY <1>3, <1>4, <1>9, <1>10 DEF Inv, TypeOK, Proc, Tries, Letter
  <1>12. ProcsOK'
    <2> SUFFICES ASSUME NEW d \in Consumers PROVE Fine(proc[d], owner = d)'
      BY DEF ProcsOK
    <2>1. CASE d = c
      <3>1. PICK a \in 1 .. Len(log) : a = p.at
        BY <1>1
      <3>2. HandledBefore(a)' /\ Handled(a)'
        <4>1. HandledBefore(a)'
          BY <1>1, <1>6, <3>1, HandledBeforeGrows DEF Inv
        <4> QED
          BY <1>4, <3>1, <4>1 DEF Handled, IsDead
      <3>3. Len(log') = Len(log)
        BY <1>3
      <3> QED
        BY <1>1, <1>5, <1>8, <1>10, <2>1, <3>1, <3>2, <3>3 DEF Fine, Foreign
    <2>2. CASE d # c
      <3>1. ASSUME NEW q \in Proc, q = proc[d], q.pc = "write", Unopposed(q)'
            PROVE  Unopposed(q) /\ projection'[Event(q.at)[1]] = projection[Event(q.at)[1]]
        BY <1>3, <1>5, <3>1 DEF Unopposed
      <3> QED
        BY <1>3, <1>6, <1>10, <2>2, <3>1, OtherFine
    <2> QED
      BY <2>1, <2>2
  <1>13. DeadOK'
    <2>1. Len(log') = Len(log)
      BY <1>3
    <2>2. ASSUME NEW i \in DOMAIN dead'
          PROVE  (/\ dead[i].offset \in 1 .. Len(log)
                  /\ dead[i].code = "malformed" => Event(dead[i].offset) = Foreign
                  /\ dead[i].code = "lifecycle" => Refused(dead[i].offset))'
      <3>1. PICK o \in 1 .. Len(log) :
              /\ dead'[i].offset = o
              /\ dead'[i].code = "malformed" => Event(o) = Foreign
              /\ dead'[i].code = "lifecycle" => Refused(o)
        <4>1. CASE i \in DOMAIN dead
          <5>1. dead'[i].offset = dead[i].offset /\ dead'[i].code = dead[i].code
            BY <1>4, <4>1
          <5> QED
            BY <4>1, <5>1 DEF Inv, DeadOK
        <4>2. CASE i \notin DOMAIN dead
          <5>1. dead'[i].offset = p.at /\ dead'[i].code = p.code
            BY <1>2, <1>4, <4>2
          <5> QED
            BY <1>1, <5>1
        <4> QED
          BY <4>1, <4>2
      <3>2. /\ dead'[i].code = "malformed" => (Event(o) = Foreign)'
            /\ dead'[i].code = "lifecycle" => Refused(o)'
        BY <1>5, <3>1 DEF Foreign
      <3> QED
        BY <2>1, <3>1, <3>2 DEF Event, Refused, Terminal
    <2>3. ASSUME NEW i \in DOMAIN dead', NEW k \in DOMAIN dead', dead'[i].offset = dead'[k].offset
          PROVE  i = k
      BY <1>2, <1>4, <2>3 DEF Inv, DeadOK
    <2> QED
      BY <2>2, <2>3 DEF DeadOK
  <1> QED
    BY <1>3, <1>6, <1>11, <1>12, <1>13, CommittedGrows DEF Inv

-----------------------------------------------------------------------------
(* Any topic *)

LEMMA InitInv == Init => Inv
  <1> SUFFICES ASSUME Init PROVE Inv
    OBVIOUS
  <1>1. log = <<>> /\ dead = <<>> /\ Len(log) = 0 /\ committed = 1 /\ owner = None
    BY DEF Init
  <1>2. TypeOK
    <2>1. log \in Seq(Records) /\ dead \in Seq(Letter)
      BY <1>1
    <2>2. proc \in [Consumers -> Proc]
      BY OffFine DEF Init
    <2> QED
      BY <2>1, <2>2 DEF Init, TypeOK, Proc, Tries, Letter
  <1>3. ProcsOK
    <2> SUFFICES ASSUME NEW c \in Consumers PROVE Fine(proc[c], owner = c)
      BY DEF ProcsOK
    <2>1. proc[c] = Off /\ owner # c
      BY <1>1, NoneAssumption DEF Init
    <2> QED
      BY <2>1, OffFine DEF Fine
  <1>4. DeadOK /\ CommittedIsHandled
    BY <1>1 DEF DeadOK, CommittedIsHandled
  <1> QED
    BY <1>2, <1>3, <1>4 DEF Inv

LEMMA NextInv == Inv /\ [Next]_vars => Inv'
  <1> SUFFICES ASSUME Inv, [Next]_vars PROVE Inv'
    OBVIOUS
  <1>1. CASE UNCHANGED vars
    <2>1. TypeOK'
      BY <1>1 DEF vars, Inv, TypeOK
    <2> QED
      BY <1>1, <2>1 DEF vars, Inv, ProcsOK, Fine, DeadOK, CommittedIsHandled, HandledBefore,
        Handled, IsDead, Event, Refused, Unopposed, Terminal
  <1>2. CASE Write \/ Revoke
    BY <1>2, WriteKeepsInv, RevokeKeepsInv
  <1>3. ASSUME NEW c \in Consumers,
               Start(c) \/ Assign(c) \/ Stop(c) \/ Progress(c) \/ DatabaseFails(c) \/ CommitFails(c)
        PROVE  Inv'
    BY <1>3, StartKeepsInv, AssignKeepsInv, StopKeepsInv, PollKeepsInv, ReadInboxKeepsInv,
      ReadProjectionKeepsInv, ApplyKeepsInv, ApplyConflictKeepsInv, DeadLetterKeepsInv, DatabaseFailsKeepsInv,
      CommitOffsetKeepsInv DEF Progress
  <1> QED
    BY <1>1, <1>2, <1>3 DEF Next

LEMMA ConsumerInv == Spec => []Inv
  BY InitInv, NextInv, PTL DEF Spec

\* Tables, group state and processes hold values of their declared kinds.
THEOREM ConsumerTypeCorrect == Spec => []TypeOK
  <1>1. Inv => TypeOK
    BY DEF Inv
  <1> QED
    BY <1>1, ConsumerInv, PTL

\* No record below the committed offset is left unhandled, whoever committed.
THEOREM ConsumerSkipsNothing == Spec => []CommittedIsHandled
  <1>1. Inv => CommittedIsHandled
    BY DEF Inv
  <1> QED
    BY <1>1, ConsumerInv, PTL

\* One dead letter per record, with the right code, and refusals only of events
\* whose job has its terminal projection, from then on for good.
THEOREM ConsumerSettlesDeadLetters == Spec => []DeadLettersAreSettled
  <1>1. Inv => DeadLettersAreSettled
    <2> SUFFICES ASSUME Inv, NEW i \in DOMAIN dead, NEW k \in DOMAIN dead
                 PROVE  /\ dead[i].offset = dead[k].offset => i = k
                        /\ dead[i].code = "malformed" <=> Event(dead[i].offset) = Foreign
                        /\ dead[i].code = "lifecycle" => Refuses(Event(dead[i].offset)[1])
      BY DEF DeadLettersAreSettled
    <2>1. dead[i].code \in {"malformed", "lifecycle"} /\ dead[i].offset \in 1 .. Len(log)
      BY LogTyped DEF Inv, DeadOK, Letter
    <2>2. \A o \in 1 .. Len(log) : Refused(o) => Refuses(Event(o)[1])
      BY LogTyped, StoryAssumption DEF Inv, Refused, Refuses, Terminal
    <2> QED
      BY <2>1, <2>2 DEF Inv, DeadOK, Refused
  <1> QED
    BY <1>1, ConsumerInv, PTL

\* Who writes the tables.
LEMMA WhoWrites ==
  ASSUME Inv, [Next]_vars
  PROVE  /\ UNCHANGED <<inbox, projection>> \/ \E c \in Consumers : Apply(c)
         /\ UNCHANGED log \/ Write
  BY DEF Next, vars, db, Write, Revoke, Start, Assign, Stop, Progress, Poll, ReadInbox,
    ReadProjection, Apply, ApplyConflict, DeadLetter, DatabaseFails, CommitOffset, CommitFails, CommitRefused

\* What one transaction does to the projections: it moves one that is not
\* terminal to the event it read.
LEMMA ApplyEffect ==
  ASSUME Inv, NEW c \in Consumers, Apply(c)
  PROVE  \E o \in 1 .. Len(log) :
           /\ Event(o) # Foreign /\ Event(o) \notin inbox /\ HandledBefore(o)
           /\ Event(o)[1] \in Jobs /\ ~Terminal(Event(o)[1], projection[Event(o)[1]])
           /\ inbox' = inbox \cup {Event(o)}
           /\ projection' = [projection EXCEPT ![Event(o)[1]] = Event(o)[2]]
  <1>1. /\ proc[c].at \in 1 .. Len(log) /\ Event(proc[c].at) # Foreign
        /\ HandledBefore(proc[c].at) /\ Unopposed(proc[c])
        /\ ~Terminal(Event(proc[c].at)[1], projection[Event(proc[c].at)[1]])
    BY DEF Apply, Conflict, Unopposed, Inv, ProcsOK, Fine
  <1>2. Event(proc[c].at)[1] \in Jobs
    BY <1>1, LogTyped DEF Inv
  <1> QED
    BY <1>1, <1>2 DEF Apply, Unopposed

\* A projection that reached its job's terminal event stays.
THEOREM ConsumerTerminalIsFinal == Spec => TerminalProjectionIsFinal
  <1> DEFINE Kept == \A j \in Jobs : Terminal(j, projection[j]) => projection'[j] = projection[j]
  <1>1. Inv /\ [Next]_vars => Kept
    BY WhoWrites, ApplyEffect DEF Inv, TypeOK
  <1>2. Spec => [][Kept]_vars
    BY <1>1, ConsumerInv, PTL DEF Spec
  <1> QED
    BY <1>2, PTL DEF TerminalProjectionIsFinal

-----------------------------------------------------------------------------
(* A topic in order, as EventLog promises it *)

\* Only events of the stories are in the topic.
StoriesOK ==
    \A o \in 1 .. Len(log) : Event(o) # Foreign => Event(o)[2] <= StoryLength[Event(o)[1]]

\* The inbox holds the first events of each story, up to the projection.
InboxOK ==
    \A j \in Jobs : \A n \in Nat \ {0} : <<j, n>> \in inbox <=> n <= projection[j]

StoryInv == Inv /\ StoriesOK /\ (EL!InOrder => InboxOK)

\* No foreign record is in order, and the predecessor of an event is before it.
LEMMA OrderedEvents ==
  ASSUME TypeOK, EL!InOrder, NEW o \in 1 .. Len(log)
  PROVE  /\ Event(o) # Foreign
         /\ Event(o)[2] # 1 => \E q \in 1 .. o - 1 : Event(q) = <<Event(o)[1], Event(o)[2] - 1>>
  <1>1. /\ log \in Seq(Records) /\ Len(log) \in Nat
        /\ \A k : k \in DOMAIN log <=> k \in 1 .. Len(log)
    BY LogTyped DEF TypeOK
  <1>2. log[o][2] # 1 => \E q \in 1 .. o - 1 : log[q] = <<log[o][1], log[o][2] - 1>>
    BY <1>1 DEF EL!InOrder
  <1>3. ASSUME log[o] = Foreign PROVE FALSE
    <2>1. log[o][1] = None /\ log[o][2] = 0
      BY <1>3 DEF Foreign
    <2>2. PICK q \in 1 .. o - 1 : log[q] = <<None, 0 - 1>>
      BY <1>2, <2>1
    <2>3. log[q] \in Records
      BY <1>1, ElementOfSeq
    <2> QED
      BY <2>2, <2>3 DEF Records, Foreign
  <1> QED
    BY <1>2, <1>3 DEF Event

\* In an ordered topic what is refused has been applied, and so has what is
\* settled: the inbox has a whole story once its last event is projected.
LEMMA SettledIsApplied ==
  ASSUME StoryInv, EL!InOrder, NEW o \in 1 .. Len(log)
  PROVE  /\ Refused(o) => Event(o) \in inbox
         /\ Handled(o) => Event(o) \in inbox
  <1>1. Refused(o) => Event(o) \in inbox
    <2> SUFFICES ASSUME Refused(o) PROVE Event(o) \in inbox
      OBVIOUS
    <2> DEFINE j == Event(o)[1]
               n == Event(o)[2]
    <2>1. /\ Event(o) \in Records /\ Event(o) # Foreign
          /\ j \in Jobs /\ n \in Nat \ {0} /\ n <= StoryLength[j]
      BY LogTyped, OrderedEvents DEF StoryInv, Inv, StoriesOK
    <2>2. Event(o) = <<j, n>>
      BY <2>1 DEF Records
    <2>3. projection[j] = StoryLength[j]
      BY DEF Refused, Terminal
    <2> HIDE DEF j, n
    <2> QED
      BY <2>1, <2>2, <2>3 DEF StoryInv, InboxOK
  <1>2. IsDead(o) => Refused(o)
    <2> SUFFICES ASSUME NEW i \in DOMAIN dead, dead[i].offset = o PROVE Refused(o)
      BY DEF IsDead
    <2>1. dead[i].code \in {"malformed", "lifecycle"} /\ Event(o) # Foreign
      BY LogTyped, OrderedEvents DEF StoryInv, Inv, Letter
    <2> QED
      BY <2>1 DEF StoryInv, Inv, DeadOK
  <1> QED
    BY <1>1, <1>2 DEF Handled

\* An event is applied right after its predecessor.
LEMMA AppliesNext ==
  ASSUME StoryInv, EL!InOrder, NEW o \in 1 .. Len(log), Event(o) \notin inbox, HandledBefore(o)
  PROVE  /\ Event(o) = <<Event(o)[1], Event(o)[2]>>
         /\ Event(o)[1] \in Jobs /\ Event(o)[2] = projection[Event(o)[1]] + 1
  <1> DEFINE j == Event(o)[1]
             n == Event(o)[2]
  <1>1. Event(o) \in Records /\ Event(o) # Foreign /\ j \in Jobs /\ n \in Nat \ {0}
    BY LogTyped, OrderedEvents DEF StoryInv, Inv
  <1>2. Event(o) = <<j, n>>
    BY <1>1 DEF Records
  <1>3. projection[j] \in Nat /\ ~(n <= projection[j])
    BY <1>1, <1>2 DEF StoryInv, InboxOK, Inv, TypeOK
  <1>4. n # 1 => n - 1 <= projection[j]
    <2> SUFFICES ASSUME n # 1 PROVE n - 1 <= projection[j]
      OBVIOUS
    <2>1. PICK q \in 1 .. o - 1 : Event(q) = <<j, n - 1>>
      BY OrderedEvents DEF StoryInv, Inv
    <2>2. q \in 1 .. Len(log)
      BY LogTyped DEF StoryInv, Inv
    <2>3. Event(q) \in inbox
      BY <2>2, SettledIsApplied DEF HandledBefore
    <2>4. n - 1 \in Nat \ {0}
      BY <1>1
    <2> HIDE DEF j, n
    <2> QED
      BY <1>1, <2>1, <2>3, <2>4 DEF StoryInv, InboxOK
  <1> HIDE DEF j, n
  <1>5. n = projection[j] + 1
    BY <1>1, <1>3, <1>4
  <1> QED
    BY <1>1, <1>2, <1>5 DEF j, n

LEMMA ApplyKeepsInbox ==
  ASSUME StoryInv, EL!InOrder, NEW c \in Consumers, Apply(c)
  PROVE  InboxOK'
  <1>1. PICK o \in 1 .. Len(log) :
           /\ Event(o) \notin inbox /\ HandledBefore(o)
           /\ inbox' = inbox \cup {Event(o)}
           /\ projection' = [projection EXCEPT ![Event(o)[1]] = Event(o)[2]]
    BY ApplyEffect DEF StoryInv
  <1>2. PICK j \in Jobs : j = Event(o)[1]
    BY <1>1, AppliesNext
  <1>3. Event(o) = <<j, projection[j] + 1>>
    BY <1>1, <1>2, AppliesNext
  <1>4. /\ inbox' = inbox \cup {<<j, projection[j] + 1>>}
        /\ projection \in [Jobs -> Nat]
        /\ projection' = [projection EXCEPT ![j] = projection[j] + 1]
    BY <1>1, <1>2, <1>3 DEF StoryInv, Inv, TypeOK
  <1> SUFFICES ASSUME NEW k \in Jobs, NEW n \in Nat \ {0}
               PROVE  <<k, n>> \in inbox' <=> n <= projection'[k]
    BY DEF InboxOK
  <1>5. <<k, n>> \in inbox' <=> <<k, n>> \in inbox \/ (k = j /\ n = projection[j] + 1)
    BY <1>4
  <1>6. <<k, n>> \in inbox <=> n <= projection[k]
    BY DEF StoryInv, InboxOK
  <1>7. projection'[k] = IF k = j THEN projection[j] + 1 ELSE projection[k]
    BY <1>4
  <1>8. projection[k] \in Nat /\ projection[j] \in Nat
    BY <1>4
  <1> QED
    BY <1>5, <1>6, <1>7, <1>8

\* A record of a story more: the log before it stays as it was.
LEMMA WriteExtends ==
  ASSUME Inv, Write
  PROVE  /\ Len(log) \in Nat /\ Len(log') = Len(log) + 1
         /\ \A o \in 1 .. Len(log) : Event(o)' = Event(o)
         /\ \/ log'[Len(log) + 1] = Foreign
            \/ \E j \in Jobs : \E n \in 1 .. StoryLength[j] : log'[Len(log) + 1] = <<j, n>>
  <1>1. PICK r \in Records : /\ log' = Append(log, r)
                             /\ \/ r = Foreign
                                \/ \E j \in Jobs : \E n \in 1 .. StoryLength[j] : r = <<j, n>>
    <2>1. CASE log' = Append(log, Foreign)
      BY <2>1 DEF Records
    <2>2. ASSUME NEW j \in Jobs, NEW n \in 1 .. StoryLength[j], log' = Append(log, <<j, n>>)
          PROVE  \E r \in Records : log' = Append(log, r) /\ r = <<j, n>>
      <3>1. <<j, n>> \in Records
        BY StoryAssumption DEF Records
      <3> QED
        BY <2>2, <3>1
    <2> QED
      BY <2>1, <2>2 DEF Write
  <1>2. log \in Seq(Records)
    BY DEF Inv, TypeOK
  <1>3. /\ Len(log) \in Nat /\ Len(log') = Len(log) + 1 /\ log'[Len(log) + 1] = r
        /\ \A o \in 1 .. Len(log) : log'[o] = log[o]
    BY <1>1, <1>2, LenProperties, AppendProperties
  <1> QED
    BY <1>1, <1>3 DEF Event

LEMMA WriteKeepsStories ==
  ASSUME StoryInv, Write
  PROVE  StoriesOK'
  <1> SUFFICES ASSUME NEW o \in 1 .. Len(log'), Event(o)' # Foreign
               PROVE  Event(o)'[2] <= StoryLength[Event(o)'[1]]
    BY DEF StoriesOK, Foreign
  <1>1. CASE o \in 1 .. Len(log)
    BY <1>1, WriteExtends DEF StoryInv, StoriesOK
  <1>2. CASE o \notin 1 .. Len(log)
    <2>1. o = Len(log) + 1
      BY <1>2, WriteExtends DEF StoryInv
    <2>2. PICK j \in Jobs : \E n \in 1 .. StoryLength[j] : Event(o)' = <<j, n>>
      BY <2>1, WriteExtends DEF StoryInv, Event
    <2>3. StoryLength[j] \in Nat
      BY StoryAssumption
    <2> QED
      BY <2>2, <2>3
  <1> QED
    BY <1>1, <1>2

\* A topic in order was in order before its last record.
LEMMA WriteKeepsOrder ==
  ASSUME Inv, Write, EL!InOrder'
  PROVE  EL!InOrder
  <1>1. /\ log \in Seq(Records) /\ log' \in Seq(Records)
        /\ \A k : k \in DOMAIN log <=> k \in 1 .. Len(log)
        /\ \A k : k \in DOMAIN log' <=> k \in 1 .. Len(log')
    <2>1. log \in Seq(Records) /\ log' \in Seq(Records)
      BY WriteKeepsInv DEF Inv, TypeOK
    <2> QED
      BY <2>1
  <1>2. /\ Len(log) \in Nat /\ Len(log') = Len(log) + 1
        /\ \A k \in 1 .. Len(log) : log'[k] = log[k]
    BY WriteExtends DEF Event
  <1> SUFFICES ASSUME NEW i \in 1 .. Len(log), log[i][2] # 1
               PROVE  \E k \in 1 .. Len(log) : k < i /\ log[k] = <<log[i][1], log[i][2] - 1>>
    BY <1>1 DEF EL!InOrder
  <1>3. PICK k \in 1 .. Len(log') : k < i /\ log'[k] = <<log'[i][1], log'[i][2] - 1>>
    <2>1. i \in 1 .. Len(log') /\ log'[i] = log[i]
      BY <1>2
    <2> QED
      BY <1>1, <2>1 DEF EL!InOrder
  <1>4. k \in 1 .. Len(log)
    BY <1>2, <1>3
  <1> QED
    BY <1>2, <1>3, <1>4

LEMMA StoryNext == StoryInv /\ [Next]_vars => StoryInv'
  <1> SUFFICES ASSUME StoryInv, [Next]_vars PROVE StoryInv'
    OBVIOUS
  <1>1. Inv'
    BY NextInv DEF StoryInv
  <1>2. CASE UNCHANGED log
    <2>1. StoriesOK' /\ EL!InOrder' = EL!InOrder
      BY <1>2 DEF StoryInv, StoriesOK, Event, Foreign, EL!InOrder
    <2>2. ASSUME EL!InOrder PROVE InboxOK'
      <3>1. CASE UNCHANGED <<inbox, projection>>
        BY <2>2, <3>1 DEF StoryInv, InboxOK
      <3> QED
        BY <2>2, <3>1, WhoWrites, ApplyKeepsInbox DEF StoryInv
    <2> QED
      BY <1>1, <2>1, <2>2 DEF StoryInv
  <1>3. CASE Write
    <2>1. UNCHANGED <<inbox, projection>>
      BY <1>3 DEF Write, db
    <2>2. EL!InOrder' => InboxOK'
      BY <1>3, <2>1, WriteKeepsOrder DEF StoryInv, InboxOK
    <2> QED
      BY <1>1, <1>3, <2>2, WriteKeepsStories DEF StoryInv
  <1> QED
    BY <1>2, <1>3, WhoWrites DEF StoryInv

LEMMA StoryInit == Init => StoryInv
  <1> SUFFICES ASSUME Init PROVE StoryInv
    OBVIOUS
  <1>1. StoriesOK
    BY DEF Init, StoriesOK
  <1>2. InboxOK
    BY DEF Init, InboxOK
  <1> QED
    BY <1>1, <1>2, InitInv DEF StoryInv

LEMMA StoryHolds == Spec => []StoryInv
  BY StoryInit, StoryNext, PTL DEF Spec

\* In an ordered topic an event is refused only when it has been applied, by a
\* process that overtook the one that refused it: nothing is lost.
THEOREM ConsumerRefusesOnlyApplied == Spec => []RefusedWasApplied
  <1>1. StoryInv => RefusedWasApplied
    BY SettledIsApplied DEF RefusedWasApplied, StoryInv, Inv, DeadOK
  <1> QED
    BY <1>1, StoryHolds, PTL

\* And each projection goes through its job's events one by one.
THEOREM ConsumerFollowsStory == Spec => ProjectionFollowsStory
  <1> DEFINE Follows == EL!InOrder => \A j \in Jobs : projection'[j] # projection[j] =>
                          projection'[j] = projection[j] + 1
  <1>1. StoryInv /\ [Next]_vars => Follows
    <2> SUFFICES ASSUME StoryInv, [Next]_vars, EL!InOrder
                 PROVE  \A j \in Jobs : projection'[j] # projection[j] =>
                          projection'[j] = projection[j] + 1
      OBVIOUS
    <2>1. CASE UNCHANGED <<inbox, projection>>
      BY <2>1
    <2>2. ASSUME NEW c \in Consumers, Apply(c)
          PROVE  \A j \in Jobs : projection'[j] # projection[j] =>
                   projection'[j] = projection[j] + 1
      <3>1. PICK o \in 1 .. Len(log) :
               /\ Event(o) \notin inbox /\ HandledBefore(o)
               /\ projection' = [projection EXCEPT ![Event(o)[1]] = Event(o)[2]]
        BY <2>2, ApplyEffect DEF StoryInv
      <3> QED
        BY <3>1, AppliesNext DEF StoryInv, Inv, TypeOK
    <2> QED
      BY <2>1, <2>2, WhoWrites DEF StoryInv
  <1>2. Spec => [][Follows]_vars
    BY <1>1, StoryHolds, PTL DEF Spec
  <1> QED
    BY <1>2, PTL DEF ProjectionFollowsStory
=============================================================================
