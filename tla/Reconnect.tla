------------------------------ MODULE Reconnect ------------------------------
(***************************************************************************)
(* When the agent reconnects: run_forever (src/src/phonehome.rs) with its  *)
(* clock, for one or more agents that present the same vm_id.  A step of   *)
(* Tick is one second.  What travels over a connection is the subject of   *)
(* module PhoneHome.                                                       *)
(*                                                                         *)
(* The backend follows the newest connection of a vm_id and closes the     *)
(* one before it with code 4409.  Each variable is a function of the agent *)
(* except the clock of takeovers.                                          *)
(***************************************************************************)
EXTENDS Integers, Sequences

CONSTANTS
  Agents,           \* processes using one vm_id (a duplicate, a copied ISO)
  Delays,           \* RECONNECT_DELAYS_SECS
  SupersededDelay,  \* SUPERSEDED_DELAY_SECS
  Healthy           \* HEALTHY_CONNECTION_SECS

ASSUME DelaysAssumption ==
  /\ Delays \in Seq(Nat \ {0}) /\ Delays # <<>>
  /\ \A i, j \in 1 .. Len(Delays) : i < j => Delays[i] < Delays[j]
  /\ SupersededDelay \in Nat \ {0}
  /\ Healthy \in Nat \ {0}

VARIABLES
  mode,      \* where the loop stands; "lost" and "evicted" are not noticed yet
  elapsed,   \* seconds since `started`, counted up to Healthy
  attempt,   \* failed attempts, counted up to the last delay
  sleep,     \* seconds of the reconnect delay still to go
  delay,     \* history: the last ordinary delay since `attempt` was reset, or 0
  uptime,    \* history: seconds the last connection has been up, up to Healthy
  sinceTakeover,  \* history: seconds since one agent evicted another
  heard           \* history: the evicted agent has not missed the 4409

vars == <<mode, elapsed, attempt, sleep, delay, uptime, sinceTakeover, heard>>

Mode == {"handshake", "up", "lost", "evicted", "sleeping"}

TypeOK ==
  /\ mode \in [Agents -> Mode]
  /\ elapsed \in [Agents -> 0 .. Healthy]
  /\ uptime \in [Agents -> 0 .. Healthy]
  /\ attempt \in [Agents -> 0 .. Len(Delays)]
  /\ sleep \in [Agents -> Nat]
  /\ delay \in [Agents -> Nat]
  /\ sinceTakeover \in 0 .. SupersededDelay
  /\ heard \in BOOLEAN

Init ==
  /\ mode = [a \in Agents |-> "handshake"]
  /\ elapsed = [a \in Agents |-> 0] /\ uptime = [a \in Agents |-> 0]
  /\ attempt = [a \in Agents |-> 0]
  /\ sleep = [a \in Agents |-> 0] /\ delay = [a \in Agents |-> 0]
  /\ sinceTakeover = SupersededDelay /\ heard = TRUE

-----------------------------------------------------------------------------
\* The connection is a TCP stream that still carries what the agent writes.
Connected(a) == mode[a] = "up"

\* `attempt` after connect_once returned: reset if it took long enough.
Counted(a) == IF elapsed[a] >= Healthy THEN 0 ELSE attempt[a]

Capped(n, cap) == IF n < cap THEN n ELSE cap

MaxDelay == Delays[Len(Delays)]

\* Variant: `attempt` is never limited.
BackoffUnlimited(a) ==
  /\ mode' = [mode EXCEPT ![a] = "sleeping"]
  /\ attempt' = [attempt EXCEPT ![a] = Counted(a) + 1]
  /\ sleep' = [sleep EXCEPT ![a] = MaxDelay]
  /\ delay' = [delay EXCEPT ![a] = MaxDelay]

\* connect_once returned Ok(Normal) or an error.
Backoff(a) ==
  LET n == Counted(a)
      d == Delays[Capped(n, Len(Delays) - 1) + 1]
  IN  /\ mode' = [mode EXCEPT ![a] = "sleeping"]
      /\ attempt' = [attempt EXCEPT ![a] = Capped(n + 1, Len(Delays))]
      /\ sleep' = [sleep EXCEPT ![a] = d]
      /\ delay' = [delay EXCEPT ![a] = d]

-----------------------------------------------------------------------------
(* One agent.                                                              *)

\* The handshake succeeds, and the backend evicts whoever was connected.
ConnectOk(a) ==
  LET losers == {b \in Agents \ {a} : Connected(b)}
  IN  /\ mode[a] = "handshake"
      /\ mode' = [b \in Agents |-> IF b = a THEN "up"
                                   ELSE IF b \in losers THEN "evicted"
                                   ELSE mode[b]]
      /\ uptime' = [uptime EXCEPT ![a] = 0]
      /\ IF losers = {} THEN UNCHANGED <<sinceTakeover, heard>>
                        ELSE sinceTakeover' = 0 /\ heard' = TRUE
      /\ UNCHANGED <<elapsed, attempt, sleep, delay>>

ConnectErr(a) ==
  /\ mode[a] = "handshake"
  /\ Backoff(a)
  /\ uptime' = [uptime EXCEPT ![a] = 0]
  /\ UNCHANGED <<elapsed, sinceTakeover, heard>>

\* The connection breaks, or the backend closes it with another code.
Break(a) ==
  /\ mode[a] = "up"
  /\ mode' = [mode EXCEPT ![a] = "lost"]
  /\ UNCHANGED <<elapsed, attempt, sleep, delay, uptime, sinceTakeover, heard>>

\* A read or a write (a frame, the keepalive ping) of connect_once fails.
NoticeBreak(a) ==
  /\ mode[a] = "lost"
  /\ Backoff(a)
  /\ UNCHANGED <<elapsed, uptime, sinceTakeover, heard>>

\* Variants: 4409 is taken for a plain close; a takeover forgets the backoff.
SupersededAsNormal(a) ==
  /\ mode[a] = "evicted"
  /\ Backoff(a)
  /\ UNCHANGED <<elapsed, uptime, sinceTakeover, heard>>
SupersededResets(a) ==
  /\ mode[a] = "evicted"
  /\ mode' = [mode EXCEPT ![a] = "sleeping"]
  /\ attempt' = [attempt EXCEPT ![a] = 0]
  /\ sleep' = [sleep EXCEPT ![a] = SupersededDelay]
  /\ UNCHANGED <<elapsed, delay, uptime, sinceTakeover, heard>>

\* The evicted agent reads the 4409: ConnectionEnd::Superseded.
NoticeSuperseded(a) ==
  /\ mode[a] = "evicted"
  /\ mode' = [mode EXCEPT ![a] = "sleeping"]
  /\ attempt' = [attempt EXCEPT ![a] = Counted(a)]
  /\ sleep' = [sleep EXCEPT ![a] = SupersededDelay]
  /\ delay' = [delay EXCEPT ![a] = IF elapsed[a] >= Healthy THEN 0 ELSE @]
  /\ UNCHANGED <<elapsed, uptime, sinceTakeover, heard>>

\* Its next write fails before it reads the close: an ordinary end.
MissSuperseded(a) ==
  /\ mode[a] = "evicted"
  /\ Backoff(a)
  /\ heard' = FALSE
  /\ UNCHANGED <<elapsed, uptime, sinceTakeover>>

\* Variant: the loop gives up after the last delay.
WakeUnlessLast(a) ==
  /\ mode[a] = "sleeping" /\ sleep[a] = 0 /\ attempt[a] < Len(Delays)
  /\ mode' = [mode EXCEPT ![a] = "handshake"]
  /\ elapsed' = [elapsed EXCEPT ![a] = 0]
  /\ UNCHANGED <<attempt, sleep, delay, uptime, sinceTakeover, heard>>

\* The delay is over: the next connect_once, `started` taken anew.
Wake(a) ==
  /\ mode[a] = "sleeping" /\ sleep[a] = 0
  /\ mode' = [mode EXCEPT ![a] = "handshake"]
  /\ elapsed' = [elapsed EXCEPT ![a] = 0]
  /\ UNCHANGED <<attempt, sleep, delay, uptime, sinceTakeover, heard>>

-----------------------------------------------------------------------------
\* One second passes.  A sleeper may be scheduled late, never early.
Tick ==
  /\ sleep' = [a \in Agents |-> IF sleep[a] > 0 THEN sleep[a] - 1 ELSE 0]
  /\ elapsed' = [a \in Agents |->
       IF mode[a] = "sleeping" THEN elapsed[a] ELSE Capped(elapsed[a] + 1, Healthy)]
  /\ uptime' = [a \in Agents |->
       IF Connected(a) THEN Capped(uptime[a] + 1, Healthy) ELSE uptime[a]]
  /\ sinceTakeover' = Capped(sinceTakeover + 1, SupersededDelay)
  /\ UNCHANGED <<mode, attempt, delay, heard>>

Handshake(a) == ConnectOk(a) \/ ConnectErr(a)
Notice(a)    == NoticeBreak(a) \/ NoticeSuperseded(a) \/ MissSuperseded(a)

Next == \/ Tick
        \/ \E a \in Agents : Handshake(a) \/ Break(a) \/ Notice(a) \/ Wake(a)

Spec == Init /\ [][Next]_vars

\* The runtime polls the loop: time passes, a sleeper is woken, and a broken
\* or evicted connection is noticed, at the latest by the keepalive ping.
\* Every handshake ends, not always in an error: that one may not hang for
\* ever is an assumption, the code sets it no limit.
FairSpec ==
  /\ Spec /\ WF_vars(Tick)
  /\ \A a \in Agents : /\ WF_vars(Wake(a)) /\ WF_vars(Notice(a))
                       /\ WF_vars(Handshake(a)) /\ SF_vars(ConnectOk(a))

-----------------------------------------------------------------------------
(* Properties.                                                             *)

\* While attempts keep failing early the ordinary delays grow strictly up to
\* the cap, across successful but short connections and across takeovers in
\* between (phonehome.rs: attempt, RECONNECT_DELAYS_SECS).
BackoffGrows ==
  [][\A a \in Agents :
       mode'[a] = "sleeping" /\ mode[a] # "sleeping" /\ elapsed[a] < Healthy =>
         \/ sleep'[a] = SupersededDelay /\ delay'[a] = delay[a]
         \/ sleep'[a] > delay[a] \/ sleep'[a] = MaxDelay]_vars

Takeover == \E a, b \in Agents :
              mode[a] = "up" /\ mode'[a] = "evicted" /\ mode'[b] = "up"

\* "can't keep evicting each other every couple of seconds": two agents that
\* read their 4409 evict one another SupersededDelay apart, whatever their
\* own connections do in between.
TakeoversSpaced ==
  [][Takeover /\ heard => sinceTakeover >= SupersededDelay]_vars

\* The same for an agent that lost the race to read its 4409.
TakeoversAlwaysSpaced ==
  [][Takeover => sinceTakeover >= SupersededDelay]_vars

\* "A connection that lived at least this long counts as healthy, resetting
\* the reconnect backoff": nothing else does.
OnlyHealthyResets ==
  [][\A a \in Agents : attempt'[a] < attempt[a] => uptime[a] >= Healthy]_vars

\* "a dropped connection is retried, never treated as fatal": an agent that
\* is not connected gets connected again.
Recovers == \A a \in Agents : (mode[a] # "up") ~> (mode[a] = "up")

=============================================================================
