--------------------------- MODULE ReconnectProofs ---------------------------
(***************************************************************************)
(* TLAPS proofs about Reconnect, for any set of agents, any increasing     *)
(* table of delays and any thresholds.                                     *)
(***************************************************************************)
EXTENDS Reconnect, TLAPS

-----------------------------------------------------------------------------
(* The table of delays.                                                    *)

\* Its entries are positive and increase.
LEMMA Table ==
  /\ Len(Delays) \in Nat \ {0}
  /\ \A i \in 1 .. Len(Delays) : Delays[i] \in Nat /\ Delays[i] > 0
  /\ \A i \in 1 .. Len(Delays) : i < Len(Delays) => Delays[i] < Delays[i + 1]
<1>1. Len(Delays) \in Nat \ {0}
  BY DelaysAssumption
<1>2. \A i \in 1 .. Len(Delays) : Delays[i] \in Nat \ {0}
  BY DelaysAssumption
<1>3. ASSUME NEW i \in 1 .. Len(Delays), i < Len(Delays)
      PROVE  Delays[i] < Delays[i + 1]
  <2>1. i + 1 \in 1 .. Len(Delays) /\ i < i + 1
    BY <1>1, <1>3
  <2>2. QED
    BY <2>1, DelaysAssumption
<1>4. QED
  BY <1>1, <1>2, <1>3

\* The delay chosen after n failed attempts is the entry of the next count.
LEMMA NextDelay ==
  ASSUME NEW n \in 0 .. Len(Delays)
  PROVE  /\ Capped(n + 1, Len(Delays)) \in 1 .. Len(Delays)
         /\ Capped(n, Len(Delays) - 1) + 1 = Capped(n + 1, Len(Delays))
         /\ Capped(n + 1, Len(Delays)) = IF n < Len(Delays) THEN n + 1 ELSE n
  BY Table DEF Capped

\* What a counter capped at a natural number stays within.
LEMMA CappedType ==
  ASSUME NEW cap \in Nat, NEW n \in 0 .. cap
  PROVE  Capped(n + 1, cap) \in 0 .. cap
  BY DEF Capped

-----------------------------------------------------------------------------
\* What Backoff does, said through the count it leaves behind.
LEMMA BackoffEffect ==
  ASSUME TypeOK, NEW a \in Agents, Backoff(a)
  PROVE  \E k \in 1 .. Len(Delays) :
           /\ k = IF Counted(a) < Len(Delays) THEN Counted(a) + 1 ELSE Counted(a)
           /\ Counted(a) \in 0 .. Len(Delays)
           /\ Delays[k] \in Nat
           /\ mode' = [mode EXCEPT ![a] = "sleeping"]
           /\ attempt' = [attempt EXCEPT ![a] = k]
           /\ sleep' = [sleep EXCEPT ![a] = Delays[k]]
           /\ delay' = [delay EXCEPT ![a] = Delays[k]]
<1>1. Counted(a) \in 0 .. Len(Delays)
  BY Table DEF Counted, TypeOK
<1>2. PICK k \in 1 .. Len(Delays) :
        /\ k = Capped(Counted(a) + 1, Len(Delays))
        /\ k = Capped(Counted(a), Len(Delays) - 1) + 1
        /\ k = IF Counted(a) < Len(Delays) THEN Counted(a) + 1 ELSE Counted(a)
  BY <1>1, NextDelay
<1>3. Delays[k] \in Nat
  BY Table
<1>4. QED
  BY <1>1, <1>2, <1>3 DEF Backoff

\* Backoff keeps the type of what it assigns.
LEMMA BackoffType ==
  ASSUME TypeOK, NEW a \in Agents, Backoff(a)
  PROVE  /\ mode' \in [Agents -> Mode]
         /\ attempt' \in [Agents -> 0 .. Len(Delays)]
         /\ sleep' \in [Agents -> Nat] /\ delay' \in [Agents -> Nat]
<1>1. PICK k \in 1 .. Len(Delays) :
        /\ Delays[k] \in Nat
        /\ mode' = [mode EXCEPT ![a] = "sleeping"]
        /\ attempt' = [attempt EXCEPT ![a] = k]
        /\ sleep' = [sleep EXCEPT ![a] = Delays[k]]
        /\ delay' = [delay EXCEPT ![a] = Delays[k]]
  BY BackoffEffect
<1>2. k \in 0 .. Len(Delays)
  BY <1>1, Table
<1>3. QED
  BY <1>1, <1>2 DEF TypeOK, Mode

\* The counters of run_forever keep their types: `attempt` never leaves the
\* table, for any number of failures (phonehome.rs: RECONNECT_DELAYS_SECS).
THEOREM ReconnectTypeCorrect == Spec => []TypeOK
<1>1. Init => TypeOK
  BY DelaysAssumption, Table DEF Init, TypeOK, Mode
<1>2. TypeOK /\ [Next]_vars => TypeOK'
  <2> SUFFICES ASSUME TypeOK, [Next]_vars PROVE TypeOK'
    OBVIOUS
  <2>1. Healthy \in Nat /\ SupersededDelay \in Nat /\ 0 \in 0 .. Healthy
        /\ 0 \in 0 .. SupersededDelay /\ 0 \in 0 .. Len(Delays)
    BY DelaysAssumption, Table
  <2>2. CASE Tick
    <3>1. sleep' \in [Agents -> Nat]
      BY <2>2 DEF Tick, TypeOK
    <3>2. elapsed' \in [Agents -> 0 .. Healthy]
      BY <2>1, <2>2, CappedType DEF Tick, TypeOK
    <3>3. uptime' \in [Agents -> 0 .. Healthy]
      BY <2>1, <2>2, CappedType DEF Tick, TypeOK
    <3>4. sinceTakeover' \in 0 .. SupersededDelay
      BY <2>1, <2>2, CappedType DEF Tick, TypeOK
    <3>5. QED
      BY <2>2, <3>1, <3>2, <3>3, <3>4 DEF Tick, TypeOK
  <2>3. ASSUME NEW a \in Agents, ConnectOk(a) PROVE TypeOK'
    <3>1. mode' \in [Agents -> Mode]
      BY <2>3 DEF ConnectOk, TypeOK, Mode
    <3>2. sinceTakeover' \in 0 .. SupersededDelay /\ heard' \in BOOLEAN
      BY <2>1, <2>3 DEF ConnectOk, TypeOK
    <3>3. uptime' \in [Agents -> 0 .. Healthy]
      BY <2>1, <2>3 DEF ConnectOk, TypeOK
    <3>4. QED
      BY <2>3, <3>1, <3>2, <3>3 DEF ConnectOk, TypeOK
  <2>4. ASSUME NEW a \in Agents, ConnectErr(a) PROVE TypeOK'
    BY <2>1, <2>4, BackoffType DEF ConnectErr, TypeOK
  <2>5. ASSUME NEW a \in Agents, Break(a) PROVE TypeOK'
    BY <2>5 DEF Break, TypeOK, Mode
  <2>6. ASSUME NEW a \in Agents, NoticeBreak(a) PROVE TypeOK'
    BY <2>6, BackoffType DEF NoticeBreak, TypeOK
  <2>7. ASSUME NEW a \in Agents, NoticeSuperseded(a) PROVE TypeOK'
    <3>1. Counted(a) \in 0 .. Len(Delays)
      BY <2>1 DEF Counted, TypeOK
    <3>2. QED
      BY <2>1, <2>7, <3>1 DEF NoticeSuperseded, TypeOK, Mode
  <2>8. ASSUME NEW a \in Agents, MissSuperseded(a) PROVE TypeOK'
    BY <2>8, BackoffType DEF MissSuperseded, TypeOK
  <2>9. ASSUME NEW a \in Agents, Wake(a) PROVE TypeOK'
    BY <2>1, <2>9 DEF Wake, TypeOK, Mode
  <2>10. CASE UNCHANGED vars
    BY <2>10 DEF vars, TypeOK
  <2>11. QED
    BY <2>2, <2>3, <2>4, <2>5, <2>6, <2>7, <2>8, <2>9, <2>10
       DEF Next, Handshake, Notice
<1>3. QED
  BY <1>1, <1>2, PTL DEF Spec

-----------------------------------------------------------------------------
\* The inductive invariant: the last ordinary delay is the table's entry for
\* the failures counted, and forgotten when the count is reset.
DelayIsCounted ==
  \A a \in Agents : delay[a] = IF attempt[a] = 0 THEN 0 ELSE Delays[attempt[a]]

\* Backoff moves count and delay together.
LEMMA BackoffCounts ==
  ASSUME TypeOK, DelayIsCounted, NEW a \in Agents, Backoff(a)
  PROVE  DelayIsCounted'
<1>1. PICK k \in 1 .. Len(Delays) :
        /\ attempt' = [attempt EXCEPT ![a] = k]
        /\ delay' = [delay EXCEPT ![a] = Delays[k]]
  BY BackoffEffect
<1>2. k # 0
  BY <1>1, Table
<1>3. QED
  BY <1>1, <1>2 DEF DelayIsCounted, TypeOK

\* Every step keeps count and delay together.
LEMMA DelayStep == TypeOK /\ DelayIsCounted /\ [Next]_vars => DelayIsCounted'
<1> SUFFICES ASSUME TypeOK, DelayIsCounted, [Next]_vars PROVE DelayIsCounted'
  OBVIOUS
<1>1. ASSUME UNCHANGED <<attempt, delay>> PROVE DelayIsCounted'
  BY <1>1 DEF DelayIsCounted
<1>2. ASSUME NEW a \in Agents, NoticeSuperseded(a) PROVE DelayIsCounted'
  <2>1. /\ attempt' = [attempt EXCEPT ![a] =
                         IF elapsed[a] >= Healthy THEN 0 ELSE attempt[a]]
        /\ delay' = [delay EXCEPT ![a] =
                         IF elapsed[a] >= Healthy THEN 0 ELSE delay[a]]
    BY <1>2 DEF NoticeSuperseded, Counted, TypeOK
  <2>2. QED
    BY <2>1 DEF DelayIsCounted, TypeOK
<1>3. ASSUME NEW a \in Agents,
             ConnectErr(a) \/ NoticeBreak(a) \/ MissSuperseded(a)
      PROVE  DelayIsCounted'
  BY <1>3, BackoffCounts DEF ConnectErr, NoticeBreak, MissSuperseded
<1>4. ASSUME NEW a \in Agents, ConnectOk(a) \/ Break(a) \/ Wake(a)
      PROVE  DelayIsCounted'
  BY <1>1, <1>4 DEF ConnectOk, Break, Wake
<1>5. CASE Tick \/ UNCHANGED vars
  BY <1>1, <1>5 DEF Tick, vars
<1>6. QED
  BY <1>2, <1>3, <1>4, <1>5 DEF Next, Handshake, Notice

-----------------------------------------------------------------------------
\* What BackoffGrows says of one agent and one step.
Grows(a) ==
  mode'[a] = "sleeping" /\ mode[a] # "sleeping" /\ elapsed[a] < Healthy =>
    \/ sleep'[a] = SupersededDelay /\ delay'[a] = delay[a]
    \/ sleep'[a] > delay[a] \/ sleep'[a] = MaxDelay

\* An ordinary end of one agent's connection lengthens its delay.
LEMMA BackoffLonger ==
  ASSUME TypeOK, DelayIsCounted, NEW a \in Agents, Backoff(a), elapsed[a] < Healthy
  PROVE  sleep'[a] > delay[a] \/ sleep'[a] = MaxDelay
<1>1. PICK k \in 1 .. Len(Delays) :
        /\ k = IF Counted(a) < Len(Delays) THEN Counted(a) + 1 ELSE Counted(a)
        /\ Counted(a) \in 0 .. Len(Delays)
        /\ sleep' = [sleep EXCEPT ![a] = Delays[k]]
  BY BackoffEffect
<1>2. Counted(a) = attempt[a]
  BY DelaysAssumption DEF Counted, TypeOK
<1>3. sleep'[a] = Delays[k]
  BY <1>1 DEF TypeOK
<1>4. CASE attempt[a] = Len(Delays)
  BY <1>1, <1>2, <1>3, <1>4, Table DEF MaxDelay
<1>5. CASE attempt[a] = 0
  <2>1. delay[a] = 0
    BY <1>5 DEF DelayIsCounted
  <2>2. QED
    BY <1>3, <2>1, Table
<1>6. CASE attempt[a] # 0 /\ attempt[a] # Len(Delays)
  <2>1. attempt[a] \in 1 .. Len(Delays) /\ attempt[a] < Len(Delays)
        /\ k = attempt[a] + 1
    BY <1>1, <1>2, <1>6, Table
  <2>2. delay[a] = Delays[attempt[a]]
    BY <1>6 DEF DelayIsCounted
  <2>3. Delays[attempt[a]] \in Nat /\ Delays[k] \in Nat
        /\ Delays[attempt[a]] < Delays[k]
    BY <2>1, Table
  <2>4. QED
    BY <1>3, <2>2, <2>3
<1>7. QED
  BY <1>4, <1>5, <1>6

\* A step falls asleep for one agent only.
LEMMA GrowsStep ==
  ASSUME TypeOK, DelayIsCounted, Next, NEW a \in Agents
  PROVE  Grows(a)
<1> SUFFICES ASSUME mode'[a] = "sleeping", mode[a] # "sleeping", elapsed[a] < Healthy
             PROVE  \/ sleep'[a] = SupersededDelay /\ delay'[a] = delay[a]
                    \/ sleep'[a] > delay[a] \/ sleep'[a] = MaxDelay
  BY DEF Grows
<1>1. ASSUME NEW b \in Agents, Backoff(b)
      PROVE  sleep'[a] > delay[a] \/ sleep'[a] = MaxDelay
  <2>1. a = b
    BY <1>1 DEF Backoff, TypeOK
  <2>2. QED
    BY <1>1, <2>1, BackoffLonger
<1>2. ASSUME NEW b \in Agents, NoticeSuperseded(b)
      PROVE  sleep'[a] = SupersededDelay /\ delay'[a] = delay[a]
  <2>1. a = b
    BY <1>2 DEF NoticeSuperseded, TypeOK
  <2>2. ~(elapsed[a] >= Healthy)
    BY DelaysAssumption DEF TypeOK
  <2>3. QED
    BY <1>2, <2>1, <2>2 DEF NoticeSuperseded, TypeOK
<1>3. ASSUME NEW b \in Agents, ConnectOk(b) \/ Break(b) \/ Wake(b) PROVE FALSE
  BY <1>3 DEF ConnectOk, Break, Wake, TypeOK
<1>4. ~Tick
  BY DEF Tick
<1>5. QED
  BY <1>1, <1>2, <1>3, <1>4
     DEF Next, Handshake, Notice, ConnectErr, NoticeBreak, MissSuperseded

\* While attempts keep ending early, each ordinary delay is longer than the
\* one before or the longest there is, for any number of agents and any
\* increasing table; a takeover in between changes neither (phonehome.rs:
\* run_forever).
THEOREM BackoffKeepsGrowing == Spec => BackoffGrows
<1>1. Init => DelayIsCounted
  BY DEF Init, DelayIsCounted
<1>2. TypeOK /\ DelayIsCounted /\ [Next]_vars =>
        [\A a \in Agents : Grows(a)]_vars
  BY GrowsStep
<1>3. Spec => [][\A a \in Agents : Grows(a)]_vars
  BY <1>1, <1>2, DelayStep, ReconnectTypeCorrect, PTL DEF Spec
<1>4. QED
  BY <1>3 DEF BackoffGrows, Grows

-----------------------------------------------------------------------------
\* The loser of a takeover has not read its 4409, or sleeps for at least what is
\* left of SupersededDelay.
Away(b) == \/ mode[b] = "evicted"
           \/ mode[b] = "sleeping" /\ sleep[b] + sinceTakeover >= SupersededDelay

\* The inductive invariant behind the spacing: unless a 4409 was missed since,
\* somebody is away until the delay has passed.
LoserAway == heard /\ sinceTakeover < SupersededDelay => \E b \in Agents : Away(b)

\* No other agent's step, and none of its own but a missed 4409, ends that
\* before the time is over.
LEMMA StaysAway ==
  ASSUME TypeOK, NEW b \in Agents, Away(b), sinceTakeover < SupersededDelay,
         Next, ~Tick, UNCHANGED <<sinceTakeover, heard>>, heard
  PROVE  Away(b)'
<1>1. PICK c \in Agents : Handshake(c) \/ Break(c) \/ Notice(c) \/ Wake(c)
  BY DEF Next
<1>2. /\ mode \in [Agents -> Mode] /\ sleep \in [Agents -> Nat]
      /\ SupersededDelay \in Nat /\ sinceTakeover \in Nat
  BY DelaysAssumption DEF TypeOK
<1>3. CASE ConnectOk(c)
  <2>1. mode[b] # "up" /\ b # c
    BY <1>3 DEF Away, ConnectOk
  <2>2. mode'[b] = mode[b] /\ sleep'[b] = sleep[b]
    BY <1>2, <1>3, <2>1 DEF ConnectOk, Connected
  <2>3. QED
    BY <2>2 DEF Away
<1>4. CASE ConnectErr(c) \/ NoticeBreak(c)
  <2>1. b # c
    BY <1>4 DEF Away, ConnectErr, NoticeBreak
  <2>2. mode'[b] = mode[b] /\ sleep'[b] = sleep[b]
    BY <1>2, <1>4, <2>1 DEF ConnectErr, NoticeBreak, Backoff
  <2>3. QED
    BY <2>2 DEF Away
<1>5. CASE Break(c)
  <2>1. b # c
    BY <1>5 DEF Away, Break
  <2>2. mode'[b] = mode[b] /\ sleep'[b] = sleep[b]
    BY <1>2, <1>5, <2>1 DEF Break
  <2>3. QED
    BY <2>2 DEF Away
<1>6. CASE NoticeSuperseded(c)
  <2>1. CASE b = c
    BY <1>2, <1>6, <2>1 DEF NoticeSuperseded, Away
  <2>2. CASE b # c
    <3>1. mode'[b] = mode[b] /\ sleep'[b] = sleep[b]
      BY <1>2, <1>6, <2>2 DEF NoticeSuperseded
    <3>2. QED
      BY <3>1 DEF Away
  <2>3. QED
    BY <2>1, <2>2
<1>7. CASE MissSuperseded(c)
  BY <1>7 DEF MissSuperseded
<1>8. CASE Wake(c)
  <2>1. b # c
    BY <1>2, <1>8 DEF Away, Wake
  <2>2. mode'[b] = mode[b] /\ sleep'[b] = sleep[b]
    BY <1>2, <1>8, <2>1 DEF Wake
  <2>3. QED
    BY <2>2 DEF Away
<1>9. QED
  BY <1>1, <1>3, <1>4, <1>5, <1>6, <1>7, <1>8 DEF Handshake, Notice

\* Every step keeps a loser away, whichever agents there are.
LEMMA AwayStep == TypeOK /\ LoserAway /\ [Next]_vars => LoserAway'
<1> SUFFICES ASSUME TypeOK, LoserAway, [Next]_vars,
                    heard', (sinceTakeover < SupersededDelay)'
             PROVE  \E b \in Agents : Away(b)'
  BY DEF LoserAway
<1>1. /\ mode \in [Agents -> Mode] /\ sleep \in [Agents -> Nat]
      /\ SupersededDelay \in Nat \ {0} /\ sinceTakeover \in Nat
  BY DelaysAssumption DEF TypeOK
<1>2. ASSUME heard, sinceTakeover < SupersededDelay PROVE \E b \in Agents : Away(b)
  BY <1>2 DEF LoserAway
<1>3. CASE Tick
  <2>1. heard /\ sinceTakeover < SupersededDelay /\ sinceTakeover' = sinceTakeover + 1
    BY <1>1, <1>3 DEF Tick, Capped
  <2>2. PICK b \in Agents : Away(b)
    BY <1>2, <2>1
  <2>3. /\ mode'[b] = mode[b]
        /\ sleep'[b] = IF sleep[b] > 0 THEN sleep[b] - 1 ELSE 0
    BY <1>3 DEF Tick
  <2>4. sleep[b] \in Nat
    BY <1>1
  <2>5. Away(b)'
    BY <1>1, <2>1, <2>2, <2>3, <2>4 DEF Away
  <2>6. QED
    BY <2>5
<1>4. CASE UNCHANGED vars
  BY <1>2, <1>4 DEF vars, Away
<1>5. CASE Next /\ ~Tick /\ UNCHANGED <<sinceTakeover, heard>>
  <2>1. PICK b \in Agents : Away(b)
    BY <1>2, <1>5
  <2>2. QED
    BY <1>5, <2>1, StaysAway
<1>6. CASE Next /\ ~Tick /\ ~UNCHANGED <<sinceTakeover, heard>>
  <2>1. PICK c \in Agents : ConnectOk(c) \/ MissSuperseded(c)
    BY <1>6 DEF Next, Handshake, Notice, ConnectErr, Break, NoticeBreak,
               NoticeSuperseded, Wake
  <2>2. ~MissSuperseded(c)
    BY DEF MissSuperseded
  <2>3. ConnectOk(c) /\ {b \in Agents \ {c} : Connected(b)} # {}
    BY <1>6, <2>1, <2>2 DEF ConnectOk
  <2>4. PICK b \in Agents \ {c} : Connected(b)
    BY <2>3
  <2>5. mode'[b] = "evicted"
    BY <2>3, <2>4 DEF ConnectOk
  <2>6. QED
    BY <2>5 DEF Away
<1>7. QED
  BY <1>3, <1>4, <1>5, <1>6

\* Two agents with one vm_id, the case the delay is made for, evict one another
\* SupersededDelay apart as long as the 4409 is read, for every such delay, every
\* table of ordinary delays and whatever their connections do in between
\* (phonehome.rs: SUPERSEDED_DELAY_SECS).  A third one that was not evicted yet
\* need not wait.
THEOREM TakeoversAreSpaced ==
  ASSUME \A a, b, c \in Agents : a = b \/ b = c \/ a = c
  PROVE  Spec => TakeoversSpaced
<1>1. Init => LoserAway
  BY DelaysAssumption DEF Init, LoserAway
<1>2. TypeOK /\ LoserAway /\ [Next]_vars
        => [Takeover /\ heard => sinceTakeover >= SupersededDelay]_vars
  <2> SUFFICES ASSUME TypeOK, LoserAway, Next, Takeover, heard,
                      ~(sinceTakeover >= SupersededDelay)
               PROVE  FALSE
    OBVIOUS
  <2>1. mode \in [Agents -> Mode] /\ SupersededDelay \in Nat /\ sinceTakeover \in Nat
    BY DelaysAssumption DEF TypeOK
  <2>2. PICK b \in Agents : mode[b] = "evicted" \/ mode[b] = "sleeping"
    BY <2>1 DEF LoserAway, Away
  <2>3. PICK a \in Agents : mode[a] = "up" /\ mode'[a] = "evicted"
    BY DEF Takeover
  <2>4. PICK c \in Agents : Handshake(c) \/ Break(c) \/ Notice(c) \/ Wake(c)
    <3>1. ~Tick
      BY <2>3 DEF Tick
    <3>2. QED
      BY <3>1 DEF Next
  <2>5. ConnectOk(c)
    BY <2>1, <2>3, <2>4 DEF Handshake, Notice, ConnectErr, Break, NoticeBreak,
       NoticeSuperseded, MissSuperseded, Wake, Backoff
  <2>6. mode[c] = "handshake"
    BY <2>5 DEF ConnectOk
  <2>7. a # b /\ b # c /\ a # c
    BY <2>2, <2>3, <2>6
  <2>8. QED
    BY <2>7
<1>3. QED
  BY <1>1, <1>2, AwayStep, ReconnectTypeCorrect, PTL DEF Spec, TakeoversSpaced
=============================================================================
