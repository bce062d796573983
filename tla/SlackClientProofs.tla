-------------------------- MODULE SlackClientProofs --------------------------
(***************************************************************************)
(* The Slack client proved for any number of goroutines and jobs and any   *)
(* limits: the rate limiter keeps its rate, a call takes effect at most    *)
(* once and a success is real, and direct messages are accounted for.      *)
(*                                                                         *)
(* The invariant follows one job through its goroutine (Own): its number   *)
(* is nobody else's (Numbers), nothing has happened before its request     *)
(* (EffectOf), and what became of its message is known from the answer on  *)
(* (MessageOf).  Every step is taken by one goroutine, writes under that   *)
(* goroutine's number and takes nothing back (Moves), so the others' parts *)
(* hold as before.  The limiter's books (Books) balance by themselves.     *)
(*                                                                         *)
(* Socket mode, at the end: the connections are a line in which only the   *)
(* last can be alive (Line), and the pump and what was acknowledged are    *)
(* tied to where the loop stands (Work).                                   *)
(***************************************************************************)
EXTENDS SlackSocket, FiniteSetTheorems, TLAPS

Fields == {"pc", "job", "n", "method", "text", "clk", "wake", "sent", "ans", "res",
           "status", "gone", "lost"}
Calling == {"wait", "take", "sleep", "http"}
Early == Calling \cup {"verify", "dispatch", "tool", "propose"}

SlotShape(x) == x = [f \in Fields |-> x[f]] /\ x.gone \in BOOLEAN /\ x.lost \in BOOLEAN

Posted(s) == \E m \in channel : m.n = slot[s].n
Failed(s) == [n |-> slot[s].n, what |-> "dm_failed"] \in audit

NumberOf(s) == slot[s].n \in 0..jobs /\ (slot[s].pc # "idle" => slot[s].n \in 1..jobs)

ClockOf(s) == slot[s].pc = "take" => slot[s].clk \in 0..now

Success(s) == \/ slot[s].pc = "answer" /\ slot[s].ans = "ok"
              \/ slot[s].pc = "returned" /\ slot[s].res = "ok"

EffectOf(s) ==
  /\ slot[s].pc \in Early => effects[slot[s].n] = 0
  /\ Success(s) => effects[slot[s].n] = 1
  /\ slot[s].pc = "done" /\ slot[s].job.kind = "call" /\ slot[s].res = "ok"
       /\ slot[s].job.op # "allow" /\ Before(slot[s].job) = "call" =>
         /\ effects[slot[s].n] = 1
         /\ slot[s].job.op = "installApp" \/ Sinks(slot[s].job) => slot[s].n \in sunk

(* A direct message that is to be accounted for. *)
Owed(s) ==
  /\ slot[s].job.kind = "http" /\ slot[s].job.route = "events"
  /\ slot[s].job.type = "event_callback" /\ IsDM(slot[s].job)
  /\ ~slot[s].gone /\ ~slot[s].lost

MessageOf(s) ==
  /\ slot[s].text = "card" => slot[s].n \in rows
  /\ slot[s].job.kind = "http" =>
       /\ slot[s].pc \in Calling \cup {"tool", "propose"} => slot[s].method = "chat.postMessage"
       /\ Success(s) => Posted(s)
       /\ slot[s].pc \in Calling \cup {"answer", "returned"} /\ slot[s].text = "apology" =>
            slot[s].lost \/ Failed(s)
  /\ Owed(s) /\ (slot[s].pc = "ack" \/ (slot[s].pc = "done" /\ slot[s].status = 200)) =>
       Posted(s) \/ Failed(s)

Own(s) == SlotShape(slot[s]) /\ NumberOf(s) /\ ClockOf(s) /\ EffectOf(s) /\ MessageOf(s)

Numbers ==
  /\ jobs \in 0..MaxJobs
  /\ \A s, p \in Slots : s # p /\ slot[s].n # 0 => slot[s].n # slot[p].n

Effects ==
  /\ effects \in [1..MaxJobs -> 0..1]
  /\ \A m \in 1..MaxJobs : m > jobs => effects[m] = 0
  /\ \A m \in sunk : m \in 1..MaxJobs /\ effects[m] = 1

(* Of a tier: what is left and what was given is within the burst and the   *)
(* rate of the time that was credited.                                      *)
Book(t) ==
  /\ bucket[t] = [tokens |-> bucket[t].tokens, last |-> bucket[t].last]
  /\ bucket[t].tokens \in Nat /\ bucket[t].last \in 0..now
  /\ granted[t] \in Nat /\ rewound[t] \in Nat
  /\ bucket[t].tokens + granted[t] * Limits[t].window <=
       Limits[t].burst * Limits[t].window
         + (bucket[t].last + rewound[t]) * Limits[t].sustained

Books ==
  /\ now \in Nat
  /\ bucket = [t \in Tiers |-> bucket[t]] /\ granted = [t \in Tiers |-> granted[t]]
  /\ rewound = [t \in Tiers |-> rewound[t]]
  /\ \A t \in Tiers : Book(t)

IInv ==
  /\ slot = [s \in Slots |-> slot[s]]
  /\ \A s \in Slots : Own(s)
  /\ Numbers /\ Effects /\ Books /\ CardHasRow
-----------------------------------------------------------------------------
(* The limiter *)

LEMMA Distribute == \A a, b, c \in Int : (a + b) * c = a * c + b * c
  OBVIOUS

LEMMA OneMore == \A g, w \in Int : (g + 1) * w = g * w + w
  OBVIOUS

LEMMA LimitsArePositive ==
  ASSUME NEW t \in Tiers
  PROVE  /\ Limits[t].burst \in Nat /\ Limits[t].sustained \in Nat \ {0}
         /\ Limits[t].window \in Nat \ {0}
BY LimitsAssumption DEF Tiers

(* A refill moves the time of the last refill to the clock that was read and *)
(* credits no more than the time between; when the clock is behind, the      *)
(* difference is what rewound counts.                                        *)
LEMMA RefillIsBounded ==
  ASSUME Books, NEW t \in Tiers, NEW clk \in 0..now
  PROVE  LET b == refill(t, clk)
             back == IF clk < bucket[t].last THEN bucket[t].last - clk ELSE 0 IN
         /\ b = [tokens |-> b.tokens, last |-> clk] /\ b.tokens \in Nat
         /\ b.tokens + granted[t] * Limits[t].window <=
              Limits[t].burst * Limits[t].window
                + (clk + (rewound[t] + back)) * Limits[t].sustained
<1> DEFINE S == Limits[t].sustained  W == Limits[t].window  B == Limits[t].burst * W
           K == bucket[t].tokens  L == bucket[t].last  G == granted[t] * W  R == rewound[t]
<1>1. /\ S \in Nat /\ B \in Nat /\ K \in Nat /\ L \in Nat /\ G \in Nat /\ R \in Nat
      /\ clk \in Nat /\ K + G <= B + (L + R) * S
      /\ bucket[t] = [tokens |-> K, last |-> L]
  BY LimitsArePositive DEF Books, Book
<1>2. CASE clk <= L
  <2>1. refill(t, clk) = [tokens |-> K, last |-> clk]
    BY <1>1, <1>2 DEF refill
  <2>2. clk + (R + (IF clk < L THEN L - clk ELSE 0)) = L + R
    BY <1>1, <1>2
  <2> QED BY <1>1, <2>1, <2>2
<1>3. CASE clk > L
  <2> DEFINE k == Min2(B, K + (clk - L) * S)
  <2>1. refill(t, clk) = [tokens |-> k, last |-> clk]
    BY <1>1, <1>3 DEF refill
  <2>2. (clk - L) * S \in Nat
    BY <1>1, <1>3
  <2>3. k \in Nat /\ k <= K + (clk - L) * S
    BY <1>1, <2>2 DEF Min2
  <2>4. (clk + R) * S = (L + R) * S + (clk - L) * S
    <3>1. clk + R = (L + R) + (clk - L)
      BY <1>1
    <3> QED BY <1>1, <1>3, <3>1, Distribute
  <2>5. (clk + R) * S \in Int /\ (L + R) * S \in Int
    BY <1>1
  <2>6. k + G <= B + (clk + R) * S
    <3> HIDE DEF k, S, W, B, K, L, G, R
    <3> QED BY <1>1, <2>2, <2>3, <2>4, <2>5
  <2>7. R + (IF clk < L THEN L - clk ELSE 0) = R
    BY <1>1, <1>3
  <2> QED BY <2>1, <2>3, <2>6, <2>7
<1> QED BY <1>1, <1>2, <1>3

LEMMA TakeKeepsBooks ==
  ASSUME Books, NEW s \in Slots, takeOrDelay(s), slot[s].clk \in 0..now
  PROVE  Books'
<1> DEFINE t == Tier(slot[s].method)  clk == slot[s].clk  b == refill(t, clk)
           ok == b.tokens >= Limits[t].window
<1>1. /\ bucket' = [bucket EXCEPT ![t] = IF ok THEN [b EXCEPT !.tokens = @ - Limits[t].window]
                                               ELSE b]
      /\ granted' = IF ok THEN [granted EXCEPT ![t] = @ + 1] ELSE granted
      /\ rewound' = IF clk < bucket[t].last
                      THEN [rewound EXCEPT ![t] = @ + bucket[t].last - clk] ELSE rewound
      /\ now' = now
  BY DEF takeOrDelay
<1> DEFINE back == IF clk < bucket[t].last THEN bucket[t].last - clk ELSE 0
<1>2. t \in Tiers =>
        /\ b = [tokens |-> b.tokens, last |-> clk] /\ b.tokens \in Nat
        /\ b.tokens + granted[t] * Limits[t].window <=
             Limits[t].burst * Limits[t].window + (clk + (rewound[t] + back)) * Limits[t].sustained
  BY RefillIsBounded
<1> HIDE DEF t, b
<1>3. /\ bucket' = [u \in Tiers |-> bucket'[u]] /\ granted' = [u \in Tiers |-> granted'[u]]
      /\ rewound' = [u \in Tiers |-> rewound'[u]]
  BY <1>1 DEF Books
<1>4. ASSUME NEW u \in Tiers, u # t PROVE Book(u)'
  <2>1. bucket'[u] = bucket[u] /\ granted'[u] = granted[u] /\ rewound'[u] = rewound[u]
    BY <1>1, <1>4 DEF Books
  <2> QED BY <1>1, <2>1 DEF Books, Book
<1>5. ASSUME NEW u \in Tiers, u = t PROVE Book(u)'
  <2>1. /\ bucket[t].last \in Nat /\ granted[t] \in Nat /\ rewound[t] \in Nat /\ clk \in Nat
        /\ clk <= now
    BY <1>5 DEF Books, Book
  <2>2. back \in Nat /\ rewound'[t] = rewound[t] + back
    BY <1>1, <1>5, <2>1 DEF Books
  <2>3. /\ Limits[t].burst \in Nat /\ Limits[t].sustained \in Nat /\ Limits[t].window \in Nat
    BY <1>5, LimitsArePositive
  <2>4. CASE ok
    <3>1. /\ bucket'[t] = [tokens |-> b.tokens - Limits[t].window, last |-> clk]
          /\ granted'[t] = granted[t] + 1
      BY <1>1, <1>2, <1>5, <2>4 DEF Books
    <3>2. b.tokens - Limits[t].window \in Nat
      BY <1>2, <1>5, <2>3, <2>4
    <3>3. (granted[t] + 1) * Limits[t].window
            = granted[t] * Limits[t].window + Limits[t].window
      BY <2>1, <2>3, OneMore
    <3>4. (b.tokens - Limits[t].window) + (granted[t] + 1) * Limits[t].window
            = b.tokens + granted[t] * Limits[t].window
      <4>1. granted[t] * Limits[t].window \in Int
        BY <2>1, <2>3
      <4>2. b.tokens \in Int /\ Limits[t].window \in Int
        BY <1>2, <1>5, <2>3
      <4> QED BY <3>3, <4>1, <4>2
    <3>5. bucket'[t].tokens + granted'[t] * Limits[t].window <=
            Limits[t].burst * Limits[t].window
              + (bucket'[t].last + rewound'[t]) * Limits[t].sustained
      BY <1>2, <1>5, <2>2, <3>1, <3>4
    <3>6. /\ bucket'[t] = [tokens |-> bucket'[t].tokens, last |-> bucket'[t].last]
          /\ bucket'[t].tokens \in Nat /\ bucket'[t].last \in 0..now'
          /\ granted'[t] \in Nat /\ rewound'[t] \in Nat
      BY <1>1, <2>1, <2>2, <3>1, <3>2
    <3> QED BY <1>5, <3>5, <3>6 DEF Book
  <2>5. CASE ~ok
    <3>1. bucket'[t] = [tokens |-> b.tokens, last |-> clk] /\ granted'[t] = granted[t]
      BY <1>1, <1>2, <1>5, <2>5 DEF Books
    <3> QED BY <1>1, <1>2, <1>5, <2>1, <2>2, <3>1 DEF Book
  <2> QED BY <2>4, <2>5
<1>6. \A u \in Tiers : Book(u)'
  BY <1>4, <1>5
<1> QED BY <1>1, <1>3, <1>6 DEF Books
-----------------------------------------------------------------------------
(* One goroutine's step *)

Frame(s) ==
  /\ slot' = [p \in Slots |-> slot'[p]]
  /\ \A p \in Slots : p # s => slot'[p] = slot[p]

(* It writes under its own number and takes nothing back. *)
Moves(s) ==
  /\ Frame(s)
  /\ \/ jobs' = jobs /\ slot'[s].n = slot[s].n
     \/ jobs < MaxJobs /\ jobs' = jobs + 1 /\ slot'[s].n = jobs + 1
  /\ \/ effects' = effects
     \/ slot[s].n \in 1..jobs /\ effects[slot[s].n] = 0 /\ jobs' = jobs
        /\ effects' = [effects EXCEPT ![slot[s].n] = 1]
  /\ channel \subseteq channel' /\ sunk \subseteq sunk'
  /\ \A m \in sunk' \ sunk : m \in 1..MaxJobs /\ effects'[m] = 1
  /\ rows \subseteq rows' /\ audit \subseteq audit'

LEMMA OthersKeep ==
  ASSUME IInv, NEW s \in Slots, Moves(s), now' = now, Own(s)', Books', CardHasRow'
  PROVE  IInv'
<1>1. jobs \in 0..MaxJobs /\ jobs' \in 0..MaxJobs /\ jobs' >= jobs /\ jobs' \in {jobs, jobs + 1}
  BY JobsAssumption DEF Moves, IInv, Numbers
<1>2. \A p \in Slots : p # s => slot'[p] = slot[p] /\ (slot[p].n # 0 => slot[p].n # slot[s].n)
  BY DEF Moves, Frame, IInv, Numbers
<1>3. \A p \in Slots : slot[p].n \in 0..jobs
  BY DEF IInv, Own, NumberOf
<1>4. Numbers'
  <2>1. CASE jobs' = jobs /\ slot'[s].n = slot[s].n
    BY <1>1, <1>2, <2>1 DEF IInv, Numbers
  <2>2. CASE jobs' = jobs + 1 /\ slot'[s].n = jobs + 1
    BY <1>1, <1>2, <1>3, <2>2 DEF IInv, Numbers
  <2> QED BY <2>1, <2>2 DEF Moves
<1>5. Effects'
  <2>1. effects' \in [1..MaxJobs -> 0..1]
    BY DEF Moves, IInv, Effects
  <2>2. ASSUME NEW m \in 1..MaxJobs, m > jobs' PROVE effects'[m] = 0
    <3>1. effects[m] = 0 /\ m > jobs
      BY <1>1, <2>2, JobsAssumption DEF IInv, Effects
    <3>2. effects' = effects \/ (slot[s].n \in 1..jobs
                                  /\ effects' = [effects EXCEPT ![slot[s].n] = 1])
      BY DEF Moves
    <3>3. slot[s].n \in 1..jobs => slot[s].n # m
      BY <1>1, <3>1, JobsAssumption
    <3> QED BY <3>1, <3>2, <3>3 DEF IInv, Effects
  <2>3. ASSUME NEW m \in sunk' PROVE m \in 1..MaxJobs /\ effects'[m] = 1
    <3>1. CASE m \in sunk
      <4>1. m \in 1..MaxJobs /\ effects[m] = 1
        BY <3>1 DEF IInv, Effects
      <4>2. effects' = effects \/ effects' = [effects EXCEPT ![slot[s].n] = 1]
        BY DEF Moves
      <4> QED BY <4>1, <4>2 DEF IInv, Effects
    <3>2. CASE m \notin sunk
      BY <3>2 DEF Moves
    <3> QED BY <3>1, <3>2
  <2> QED BY <2>1, <2>2, <2>3 DEF Effects
<1>6. ASSUME NEW p \in Slots, p # s PROVE Own(p)'
  <2>1. slot'[p] = slot[p] /\ Own(p) /\ slot[p].n \in 0..jobs
    BY <1>2, <1>3, <1>6 DEF IInv
  <2>2. SlotShape(slot'[p])
    BY <2>1 DEF Own
  <2>2a. NumberOf(p)'
    BY <1>1, <2>1 DEF Own, NumberOf
  <2>2b. ClockOf(p)'
    BY <2>1 DEF Own, ClockOf
  <2>3. slot[p].pc # "idle" => effects'[slot[p].n] = effects[slot[p].n]
    <3>1. effects' = effects \/ effects' = [effects EXCEPT ![slot[s].n] = 1]
      BY DEF Moves
    <3>2. slot[p].pc # "idle" => slot[p].n # slot[s].n /\ slot[p].n \in 1..MaxJobs
      BY <1>1, <1>2, <1>6, <2>1, JobsAssumption DEF Own, NumberOf
    <3> QED BY <3>1, <3>2 DEF IInv, Effects
  <2>4. EffectOf(p)'
    BY <2>1, <2>3 DEF Own, EffectOf, Early, Calling, Success, Moves
  <2>5. Posted(p) => Posted(p)'
    BY <2>1 DEF Posted, Moves
  <2>6. Failed(p) => Failed(p)'
    BY <2>1 DEF Failed, Moves
  <2>7. MessageOf(p)'
    BY <2>1, <2>5, <2>6 DEF Own, MessageOf, Success, Owed, Moves
  <2> QED BY <2>2, <2>2a, <2>2b, <2>4, <2>7 DEF Own, SlotShape
<1>7. \A p \in Slots : Own(p)'
  BY <1>6
<1>8. slot' = [p \in Slots |-> slot'[p]]
  BY DEF Moves, Frame
<1> QED BY <1>4, <1>5, <1>7, <1>8 DEF IInv

LEMMA ShapeOf ==
  ASSUME IInv, NEW s \in Slots
  PROVE  /\ slot = [p \in Slots |-> slot[p]] /\ slot[s] = [f \in Fields |-> slot[s][f]]
         /\ slot[s].gone \in BOOLEAN /\ slot[s].lost \in BOOLEAN
         /\ NumberOf(s) /\ ClockOf(s) /\ EffectOf(s) /\ MessageOf(s)
BY DEF IInv, Own, SlotShape

(* A step that makes no new job and does not reach Slack. *)
LEMMA StepRule ==
  ASSUME IInv, NEW s \in Slots, NEW x, slot' = [slot EXCEPT ![s] = x],
         SlotShape(x), x.n = slot[s].n, UNCHANGED <<now, jobs, slack>>,
         audit \subseteq audit', sunk \subseteq sunk', rows \subseteq rows',
         \A m \in sunk' \ sunk : m \in 1..MaxJobs /\ effects[m] = 1,
         x.pc # "idle" => slot[s].pc # "idle",
         Books', ClockOf(s)', EffectOf(s)', MessageOf(s)'
  PROVE  IInv'
<1>1. slot'[s] = x /\ Frame(s)
  BY ShapeOf DEF Frame
<1>2. Moves(s)
  BY <1>1 DEF Moves, slack
<1>3. NumberOf(s)' /\ SlotShape(slot'[s])
  BY <1>1, ShapeOf DEF NumberOf
<1>4. CardHasRow'
  BY DEF IInv, CardHasRow, slack
<1> QED BY <1>2, <1>3, <1>4, OthersKeep DEF Own, SlotShape

LEMMA QuietBooks ==
  ASSUME IInv, UNCHANGED <<now, limiter>> PROVE Books'
BY DEF IInv, Books, Book, limiter

LEMMA WaitKeeps ==
  ASSUME IInv, NEW s \in Slots, Wait(s)
  PROVE  IInv'
<1> USE ShapeOf
<1> DEFINE gone == slot[s].gone
           x == [slot[s] EXCEPT !.pc = IF gone THEN "returned" ELSE "take",
                                !.clk = IF gone THEN 0 ELSE now,
                                !.res = IF gone THEN "error" ELSE "none"]
<1>1. /\ slot[s].pc = "wait" /\ slot' = [slot EXCEPT ![s] = x]
      /\ UNCHANGED <<now, limiter, jobs, slack, stores>>
  BY DEF Wait
<1>2. /\ x = [f \in Fields |-> x[f]] /\ x.pc = (IF gone THEN "returned" ELSE "take")
      /\ x.job = slot[s].job /\ x.n = slot[s].n /\ x.method = slot[s].method
      /\ x.text = slot[s].text /\ x.clk = (IF gone THEN 0 ELSE now)
      /\ x.res = (IF gone THEN "error" ELSE "none")
      /\ x.gone = slot[s].gone /\ x.lost = slot[s].lost
  BY ZenonT(30) DEF Fields
<1> HIDE DEF x
<1>3. slot'[s] = x /\ SlotShape(x)
  BY <1>1, <1>2 DEF SlotShape
<1>4. ClockOf(s)'
  BY <1>1, <1>2, <1>3 DEF ClockOf, IInv, Books
<1>5. EffectOf(s)'
  BY <1>1, <1>2, <1>3 DEF EffectOf, Early, Calling, Success, slack, stores
<1>6. MessageOf(s)'
  BY ZenonT(30), <1>1, <1>2, <1>3 DEF MessageOf, Success, Posted, Failed, Owed, Calling, slack, stores
<1> QED BY <1>1, <1>2, <1>3, <1>4, <1>5, <1>6, QuietBooks, StepRule DEF stores

LEMMA CancelKeeps ==
  ASSUME IInv, NEW s \in Slots, Cancel(s)
  PROVE  IInv'
<1> USE ShapeOf
<1> DEFINE x == [slot[s] EXCEPT !.gone = TRUE]
<1>1. /\ slot[s].pc \notin {"idle", "done"} /\ slot' = [slot EXCEPT ![s] = x]
      /\ UNCHANGED <<now, limiter, jobs, slack, stores>>
  BY DEF Cancel
<1>2. /\ x = [f \in Fields |-> x[f]] /\ x.pc = slot[s].pc
      /\ x.job = slot[s].job /\ x.n = slot[s].n /\ x.method = slot[s].method
      /\ x.text = slot[s].text /\ x.clk = slot[s].clk /\ x.ans = slot[s].ans
      /\ x.res = slot[s].res /\ x.gone = TRUE /\ x.lost = slot[s].lost
  BY DEF Fields
<1> HIDE DEF x
<1>3. slot'[s] = x /\ SlotShape(x)
  BY <1>1, <1>2 DEF SlotShape
<1>4. ClockOf(s)'
  BY <1>1, <1>2, <1>3 DEF ClockOf
<1>5. EffectOf(s)'
  <2>1. Success(s)' <=> Success(s)
    BY <1>2, <1>3 DEF Success
  <2>2. slot'[s].pc = slot[s].pc /\ slot'[s].n = slot[s].n /\ slot[s].pc # "done"
        /\ effects' = effects
    BY <1>1, <1>2, <1>3 DEF slack
  <2>3. EffectOf(s)
    OBVIOUS
  <2> HIDE ShapeOf
  <2> QED BY <2>1, <2>2, <2>3 DEF EffectOf
<1>6. MessageOf(s)'
  <2>1. (Success(s)' <=> Success(s)) /\ (Posted(s)' <=> Posted(s)) /\ (Failed(s)' <=> Failed(s))
    BY SMTT(30), <1>1, <1>2, <1>3 DEF Success, Posted, Failed, slack, stores
  <2>2. ~Owed(s)'
    BY <1>2, <1>3 DEF Owed
  <2>3. /\ slot'[s].pc = slot[s].pc /\ slot'[s].n = slot[s].n /\ slot[s].pc # "done"
        /\ slot'[s].text = slot[s].text /\ slot'[s].job = slot[s].job
        /\ slot'[s].method = slot[s].method /\ slot'[s].lost = slot[s].lost /\ rows' = rows
    BY <1>1, <1>2, <1>3 DEF stores
  <2>4. MessageOf(s)
    OBVIOUS
  <2> HIDE ShapeOf
  <2> QED BY <2>1, <2>2, <2>3, <2>4 DEF MessageOf
<1> QED BY <1>1, <1>2, <1>3, <1>4, <1>5, <1>6, QuietBooks, StepRule DEF stores

LEMMA TakeKeeps ==
  ASSUME IInv, NEW s \in Slots, takeOrDelay(s)
  PROVE  IInv'
<1> USE ShapeOf
<1> DEFINE t == Tier(slot[s].method)
           b == refill(t, slot[s].clk)
           ok == b.tokens >= Limits[t].window
           allow == slot[s].job.kind = "call" /\ slot[s].job.op = "allow"
           pc == IF allow THEN "done" ELSE IF ok THEN "http" ELSE "sleep"
           res == IF allow THEN (IF ok THEN "ok" ELSE "error") ELSE "none"
           wake == IF ok THEN 0 ELSE now + delay(t, b.tokens)
           x == [slot[s] EXCEPT !.pc = pc, !.clk = 0, !.wake = wake, !.res = res]
<1>0. /\ slot[s].pc = "take" /\ UNCHANGED <<now, jobs, slack, stores>>
      /\ slot' = [slot EXCEPT ![s].pc = pc, ![s].clk = 0, ![s].wake = wake, ![s].res = res]
  BY DEF takeOrDelay
<1>2. \/ pc \in {"http", "sleep"} /\ res = "none"
      \/ pc = "done" /\ allow
  <2>1. CASE allow
    BY <2>1
  <2>2. CASE ~allow
    BY <2>2
  <2> QED BY <2>1, <2>2
<1> HIDE DEF pc, res, wake, ok, b, t
<1>1. /\ slot[s].pc = "take" /\ slot' = [slot EXCEPT ![s] = x]
      /\ UNCHANGED <<now, jobs, slack, stores>>
  BY <1>0
<1>3. /\ x = [f \in Fields |-> x[f]] /\ x.pc = pc /\ x.res = res
      /\ x.job = slot[s].job /\ x.n = slot[s].n /\ x.method = slot[s].method
      /\ x.text = slot[s].text /\ x.gone = slot[s].gone /\ x.lost = slot[s].lost
  BY ZenonT(30) DEF Fields
<1> HIDE DEF x
<1>4. slot'[s] = x /\ SlotShape(x)
  BY <1>1, <1>3 DEF SlotShape
<1>5. ClockOf(s)'
  BY <1>2, <1>3, <1>4 DEF ClockOf
<1>6. EffectOf(s)'
  BY <1>1, <1>2, <1>3, <1>4 DEF EffectOf, Early, Calling, Success, slack, stores
<1>7. MessageOf(s)'
  BY ZenonT(30), <1>1, <1>2, <1>3, <1>4 DEF MessageOf, Success, Posted, Failed, Owed, Calling, slack, stores
<1>8. Books'
  BY <1>1, TakeKeepsBooks DEF ClockOf, IInv
<1> QED BY <1>1, <1>3, <1>4, <1>5, <1>6, <1>7, <1>8, StepRule DEF stores

LEMMA WakeKeeps ==
  ASSUME IInv, NEW s \in Slots, Wake(s)
  PROVE  IInv'
<1> USE ShapeOf
<1> DEFINE x == [slot[s] EXCEPT !.pc = "take", !.clk = now, !.wake = 0]
<1>1. /\ slot[s].pc = "sleep" /\ slot' = [slot EXCEPT ![s] = x]
      /\ UNCHANGED <<now, limiter, jobs, slack, stores>>
  BY DEF Wake
<1>2. /\ x = [f \in Fields |-> x[f]] /\ x.pc = "take"
      /\ x.job = slot[s].job /\ x.n = slot[s].n /\ x.method = slot[s].method
      /\ x.text = slot[s].text /\ x.clk = now
      /\ x.gone = slot[s].gone /\ x.lost = slot[s].lost
  BY ZenonT(30) DEF Fields
<1> HIDE DEF x
<1>3. slot'[s] = x /\ SlotShape(x)
  BY <1>1, <1>2 DEF SlotShape
<1>4. ClockOf(s)'
  BY <1>1, <1>2, <1>3 DEF ClockOf, IInv, Books
<1>5. EffectOf(s)'
  BY <1>1, <1>2, <1>3 DEF EffectOf, Early, Calling, Success, slack, stores
<1>6. MessageOf(s)'
  BY <1>1, <1>2, <1>3 DEF MessageOf, Success, Posted, Failed, Owed, Calling, slack, stores
<1> QED BY <1>1, <1>2, <1>3, <1>4, <1>5, <1>6, QuietBooks, StepRule DEF stores

LEMMA WakeCancelledKeeps ==
  ASSUME IInv, NEW s \in Slots, WakeCancelled(s)
  PROVE  IInv'
<1> USE ShapeOf
<1> DEFINE x == [slot[s] EXCEPT !.pc = "returned", !.wake = 0, !.res = "error"]
<1>1. /\ slot[s].pc = "sleep" /\ slot' = [slot EXCEPT ![s] = x]
      /\ UNCHANGED <<now, limiter, jobs, slack, stores>>
  BY DEF WakeCancelled
<1>2. /\ x = [f \in Fields |-> x[f]] /\ x.pc = "returned"
      /\ x.job = slot[s].job /\ x.n = slot[s].n /\ x.method = slot[s].method
      /\ x.text = slot[s].text /\ x.res = "error"
      /\ x.gone = slot[s].gone /\ x.lost = slot[s].lost
  BY DEF Fields
<1> HIDE DEF x
<1>3. slot'[s] = x /\ SlotShape(x)
  BY <1>1, <1>2 DEF SlotShape
<1>4. ClockOf(s)'
  BY <1>1, <1>2, <1>3 DEF ClockOf
<1>5. EffectOf(s)'
  BY <1>1, <1>2, <1>3 DEF EffectOf, Early, Calling, Success, slack, stores
<1>6. MessageOf(s)'
  BY <1>1, <1>2, <1>3 DEF MessageOf, Success, Posted, Failed, Owed, Calling, slack, stores
<1> QED BY <1>1, <1>2, <1>3, <1>4, <1>5, <1>6, QuietBooks, StepRule DEF stores

LEMMA DecodeKeeps ==
  ASSUME IInv, NEW s \in Slots, decodeResponse(s)
  PROVE  IInv'
<1> USE ShapeOf
<1>0. PICK failed \in BOOLEAN :
        /\ ~failed => slot[s].ans = "ok"
        /\ slot' = [slot EXCEPT ![s].pc = "returned", ![s].ans = "none",
                                ![s].res = IF failed THEN "error" ELSE "ok"]
  BY DEF decodeResponse
<1> DEFINE x == [slot[s] EXCEPT !.pc = "returned", !.ans = "none",
                                !.res = IF failed THEN "error" ELSE "ok"]
<1>1. /\ slot[s].pc = "answer" /\ slot' = [slot EXCEPT ![s] = x]
      /\ UNCHANGED <<now, limiter, jobs, slack, stores>>
  BY <1>0 DEF decodeResponse
<1>2. /\ x = [f \in Fields |-> x[f]] /\ x.pc = "returned"
      /\ x.job = slot[s].job /\ x.n = slot[s].n /\ x.method = slot[s].method
      /\ x.text = slot[s].text /\ x.res = (IF failed THEN "error" ELSE "ok")
      /\ x.gone = slot[s].gone /\ x.lost = slot[s].lost
  BY ZenonT(30) DEF Fields
<1> HIDE DEF x
<1>3. slot'[s] = x /\ SlotShape(x)
  BY <1>1, <1>2 DEF SlotShape
<1>4. ClockOf(s)'
  BY <1>1, <1>2, <1>3 DEF ClockOf
<1>5. EffectOf(s)'
  BY ZenonT(30), <1>0, <1>1, <1>2, <1>3 DEF EffectOf, Early, Calling, Success, slack, stores
<1>6. MessageOf(s)'
  <2>1. (Success(s)' => Success(s)) /\ (Posted(s)' <=> Posted(s)) /\ (Failed(s)' <=> Failed(s))
    BY ZenonT(30), <1>0, <1>1, <1>2, <1>3 DEF Success, Posted, Failed, slack, stores
  <2> QED BY <1>1, <1>2, <1>3, <2>1 DEF MessageOf, Calling, slack, stores
<1> QED BY <1>1, <1>2, <1>3, <1>4, <1>5, <1>6, QuietBooks, StepRule DEF stores
LEMMA DoKeeps ==
  ASSUME IInv, NEW s \in Slots, Do(s)
  PROVE  IInv'
<1> USE ShapeOf
<1>0. slot[s].pc = "http" /\ UNCHANGED <<now, limiter, jobs, stores>>
  BY DEF Do
<1>1. ASSUME slot' = [slot EXCEPT ![s].pc = "returned", ![s].res = "error"], UNCHANGED slack
      PROVE  IInv'
  <2> DEFINE x == [slot[s] EXCEPT !.pc = "returned", !.res = "error"]
  <2>1. slot' = [slot EXCEPT ![s] = x]
    BY <1>1
  <2>2. /\ x = [f \in Fields |-> x[f]] /\ x.pc = "returned" /\ x.res = "error"
        /\ x.job = slot[s].job /\ x.n = slot[s].n /\ x.text = slot[s].text
        /\ x.gone = slot[s].gone /\ x.lost = slot[s].lost
    BY DEF Fields
  <2> HIDE DEF x
  <2>3. slot'[s] = x /\ SlotShape(x)
    BY <2>1, <2>2 DEF SlotShape
  <2>4. ClockOf(s)'
    BY <2>2, <2>3 DEF ClockOf
  <2>5. EffectOf(s)'
    BY <2>2, <2>3 DEF EffectOf, Early, Calling, Success
  <2>6. MessageOf(s)'
    <3>1. channel' = channel /\ audit' = audit /\ slot'[s].n = slot[s].n
      BY <1>0, <1>1, <2>2, <2>3 DEF slack, stores
    <3>2. ~Success(s)' /\ (Posted(s)' <=> Posted(s)) /\ (Failed(s)' <=> Failed(s))
      BY <2>2, <2>3, <3>1 DEF Success, Posted, Failed
    <3> QED BY <1>0, <2>2, <2>3, <3>2 DEF MessageOf, Calling, stores
  <2> QED BY <1>0, <1>1, <2>1, <2>2, <2>3, <2>4, <2>5, <2>6, QuietBooks, StepRule DEF stores
<1>2. ASSUME NEW a \in Answers, slot' = [slot EXCEPT ![s].pc = "answer", ![s].ans = a],
             IF a \in Took THEN Effect(s) ELSE UNCHANGED slack
      PROVE  IInv'
  <2> DEFINE x == [slot[s] EXCEPT !.pc = "answer", !.ans = a]
  <2>1. slot' = [slot EXCEPT ![s] = x]
    BY <1>2
  <2>2. /\ x = [f \in Fields |-> x[f]] /\ x.pc = "answer" /\ x.ans = a
        /\ x.job = slot[s].job /\ x.n = slot[s].n /\ x.text = slot[s].text
        /\ x.gone = slot[s].gone /\ x.lost = slot[s].lost
    BY DEF Fields
  <2> HIDE DEF x
  <2>3. slot'[s] = x /\ SlotShape(x)
    BY <2>1, <2>2 DEF SlotShape
  <2>4. ClockOf(s)'
    BY <2>2, <2>3 DEF ClockOf
  <2>5. Success(s)' => a \in Took
    BY <2>2, <2>3 DEF Success, Took
  <2>6. CASE a \notin Took
    <3>1. EffectOf(s)'
      BY <2>2, <2>3, <2>5, <2>6 DEF EffectOf, Early, Calling
    <3>2. MessageOf(s)'
      <4>1. ~Success(s)' /\ (Posted(s)' <=> Posted(s)) /\ (Failed(s)' <=> Failed(s))
        <5>1. channel' = channel /\ audit' = audit /\ slot'[s].n = slot[s].n
          BY <1>0, <1>2, <2>2, <2>3, <2>6 DEF slack, stores
        <5> QED BY <2>5, <2>6, <5>1 DEF Posted, Failed
      <4> QED BY <1>0, <2>2, <2>3, <4>1 DEF MessageOf, Calling, stores
    <3> QED BY <1>0, <1>2, <2>1, <2>2, <2>3, <2>4, <2>6, <3>1, <3>2, QuietBooks, StepRule DEF stores
  <2>7. CASE a \in Took
    <3> DEFINE n == slot[s].n  m == [n |-> n, text |-> slot[s].text]
    <3>1. n \in 1..jobs /\ n \in 1..MaxJobs /\ effects[n] = 0
      BY <1>0, JobsAssumption DEF NumberOf, EffectOf, Early, Calling, IInv, Numbers
    <3>2. effects' = [effects EXCEPT ![n] = 1] /\ effects'[n] = 1
      <4>1. effects' = [effects EXCEPT ![n] = effects[n] + 1] /\ effects \in [1..MaxJobs -> 0..1]
        BY <1>2, <2>7 DEF Effect, IInv, Effects
      <4> QED BY <3>1, <4>1
    <3>3. channel' = IF slot[s].method = "chat.postMessage" THEN channel \cup {m} ELSE channel
      BY <1>2, <2>7 DEF Effect
    <3>4. CardHasRow'
      <4>1. \A k \in channel' : k \in channel \/ k = m
        BY <3>3
      <4>2. m.text = "card" => m.n \in rows
        BY DEF MessageOf
      <4> HIDE DEF m
      <4> QED BY <1>0, <4>1, <4>2 DEF IInv, CardHasRow, stores
    <3>5. EffectOf(s)'
      BY <2>2, <2>3, <3>2 DEF EffectOf, Early, Calling, Success
    <3>6. MessageOf(s)'
      <4>1. slot[s].job.kind = "http" => Posted(s)'
        <5>1. slot[s].job.kind = "http" => m \in channel'
          BY <1>0, <3>3 DEF MessageOf, Calling
        <5>2. m.n = slot'[s].n
          BY <2>2, <2>3
        <5> HIDE DEF m
        <5> QED BY <5>1, <5>2 DEF Posted
      <4>2. Failed(s)' <=> Failed(s)
        BY <1>0, <2>2, <2>3 DEF Failed, stores
      <4> QED BY <1>0, <2>2, <2>3, <4>1, <4>2 DEF MessageOf, Calling, stores
    <3>7. Moves(s) /\ NumberOf(s)'
      <4>1. Frame(s)
        BY <2>1, <2>3 DEF Frame
      <4> QED BY <1>0, <2>2, <2>3, <3>1, <3>2, <3>3, <4>1 DEF Moves, NumberOf, stores
    <3> QED BY <1>0, <2>3, <2>4, <3>4, <3>5, <3>6, <3>7, OthersKeep, QuietBooks DEF Own
  <2> QED BY <2>6, <2>7
<1> QED BY <1>1, <1>2 DEF Do, Attempt

LEMMA AfterCallKeeps ==
  ASSUME IInv, NEW s \in Slots, AfterCall(s)
  PROVE  IInv'
<1> USE ShapeOf
<1>0. /\ slot[s].pc = "returned" /\ slot[s].job.kind = "call"
      /\ UNCHANGED <<now, limiter, jobs, slack, rows, audit>>
  BY DEF AfterCall
<1>1. ASSUME NEW res, slot' = [slot EXCEPT ![s] = End(s, res)],
             sunk' = sunk \/ (slot[s].res = "ok" /\ sunk' = sunk \cup {slot[s].n}),
             res = "ok" => slot[s].res = "ok" /\ (Sinks(slot[s].job) => slot[s].n \in sunk')
      PROVE  IInv'
  <2> DEFINE x == End(s, res)
  <2>1. slot' = [slot EXCEPT ![s] = x]
    BY <1>1
  <2>2. /\ x = [f \in Fields |-> x[f]] /\ x.pc = "done" /\ x.res = res /\ x.text = "none"
        /\ x.job = slot[s].job /\ x.n = slot[s].n
        /\ x.gone = slot[s].gone /\ x.lost = slot[s].lost
    BY ZenonT(30) DEF Fields, End
  <2> HIDE DEF x
  <2>3. slot'[s] = x /\ SlotShape(x)
    BY <2>1, <2>2 DEF SlotShape
  <2>4. ClockOf(s)'
    BY <2>2, <2>3 DEF ClockOf
  <2>5. EffectOf(s)'
    <3>1. res = "ok" => effects'[slot[s].n] = 1
      BY <1>0, <1>1 DEF EffectOf, Success, slack
    <3>2. Before(slot[s].job) = "call" /\ slot[s].job.op = "installApp" => Sinks(slot[s].job)
      BY DEF Before, InstallApp, Sinks
    <3> QED BY <1>1, <2>2, <2>3, <3>1, <3>2 DEF EffectOf, Early, Calling, Success
  <2>6. MessageOf(s)'
    BY <1>0, <2>2, <2>3 DEF MessageOf, Owed
  <2>7. \A m \in sunk' \ sunk : m \in 1..MaxJobs /\ effects[m] = 1
    <3>1. slot[s].n \in 1..MaxJobs
      BY <1>0, JobsAssumption DEF NumberOf, IInv, Numbers
    <3>2. slot[s].res = "ok" => effects[slot[s].n] = 1
      BY <1>0 DEF EffectOf, Success
    <3>3. \A m \in sunk' \ sunk : m = slot[s].n /\ slot[s].res = "ok"
      BY <1>1
    <3> QED BY <3>1, <3>2, <3>3
  <2>8. sunk \subseteq sunk' /\ UNCHANGED <<now, jobs, slack>> /\ audit' = audit /\ rows' = rows
    BY <1>0, <1>1
  <2> HIDE DEF x
  <2> QED BY <1>0, <2>1, <2>2, <2>3, <2>4, <2>5, <2>6, <2>7, <2>8, QuietBooks, StepRule
<1>2. CASE Sinks(slot[s].job) /\ slot[s].res = "ok"
  <2>1. PICK failed \in BOOLEAN :
          /\ sunk' = IF failed THEN sunk ELSE sunk \cup {slot[s].n}
          /\ slot' = [slot EXCEPT ![s] = End(s, IF failed THEN "error" ELSE "ok")]
    BY <1>2 DEF AfterCall
  <2> QED BY <1>1, <1>2, <2>1
<1>3. CASE ~(Sinks(slot[s].job) /\ slot[s].res = "ok")
  BY <1>1, <1>3 DEF AfterCall
<1> QED BY <1>2, <1>3

(* A new job starts with nothing done, in the goroutine that takes it. *)
LEMMA NewJobKeeps ==
  ASSUME IInv, NEW s \in Slots, NEW x, slot' = [slot EXCEPT ![s] = x],
         jobs < MaxJobs, jobs' = jobs + 1, UNCHANGED <<now, limiter, slack, stores>>,
         SlotShape(x), x.n = jobs + 1, x.text # "card",
         \/ x.pc \in {"wait", "done"} /\ x.job.kind = "call"
         \/ x.pc = "verify" /\ x.job.kind = "http",
         x.pc = "done" => Before(x.job) # "call"
  PROVE  IInv'
<1>1. slot'[s] = x /\ Frame(s)
  BY ShapeOf DEF Frame
<1>2. effects' = effects /\ channel' = channel /\ sunk' = sunk /\ rows' = rows /\ audit' = audit
  BY DEF slack, stores
<1>3. Moves(s)
  BY <1>1, <1>2 DEF Moves
<1>4. jobs \in Nat /\ jobs + 1 \in 1..MaxJobs /\ effects[jobs + 1] = 0
  BY JobsAssumption DEF IInv, Numbers, Effects
<1>5. NumberOf(s)'
  BY <1>1, <1>4 DEF NumberOf
<1>6. ClockOf(s)'
  BY <1>1 DEF ClockOf
<1>7. EffectOf(s)'
  BY <1>1, <1>2, <1>4 DEF EffectOf, Early, Calling, Success
<1>8. MessageOf(s)'
  BY <1>1 DEF MessageOf, Success, Owed, Calling
<1>9. CardHasRow'
  BY <1>2 DEF IInv, CardHasRow
<1> QED BY <1>1, <1>3, <1>5, <1>6, <1>7, <1>8, <1>9, QuietBooks, OthersKeep DEF Own

LEMMA BeginKeeps ==
  ASSUME IInv, NEW s \in Slots, Begin(s)
  PROVE  IInv'
<1>0. PICK j \in Jobs[jobs + 1] : BeginCall(s, j) \/ Deliver(s, j)
  BY DEF Begin
<1>1. CASE BeginCall(s, j)
  <2> DEFINE called == Before(j) = "call"
             x == [Idle EXCEPT !.pc = IF called THEN "wait" ELSE "done",
                               !.res = IF called THEN "none" ELSE Before(j),
                               !.job = j, !.n = jobs + 1, !.text = "text", !.method = Method(j)]
  <2>1. /\ slot' = [slot EXCEPT ![s] = x] /\ j.kind = "call" /\ jobs < MaxJobs
        /\ jobs' = jobs + 1 /\ UNCHANGED <<now, limiter, slack, stores>>
    BY <1>1 DEF BeginCall, Free
  <2>2. /\ SlotShape(x) /\ x.n = jobs + 1 /\ x.text = "text" /\ x.job = j
        /\ x.pc = IF called THEN "wait" ELSE "done"
    BY ZenonT(30) DEF SlotShape, Fields, Idle
  <2> HIDE DEF x
  <2> QED BY <2>1, <2>2, NewJobKeeps
<1>2. CASE Deliver(s, j)
  <2> DEFINE x == [Idle EXCEPT !.pc = "verify", !.job = j, !.n = jobs + 1, !.sent = now]
  <2>1. /\ slot' = [slot EXCEPT ![s] = x] /\ j.kind = "http" /\ jobs < MaxJobs
        /\ jobs' = jobs + 1 /\ UNCHANGED <<now, limiter, slack, stores>>
    BY <1>2 DEF Deliver, Free
  <2>2. SlotShape(x) /\ x.n = jobs + 1 /\ x.text = "none" /\ x.job = j /\ x.pc = "verify"
    BY DEF SlotShape, Fields, Idle
  <2> HIDE DEF x
  <2> QED BY <2>1, <2>2, NewJobKeeps
<1> QED BY <1>0, <1>1, <1>2

(* A request's goroutine that neither calls Slack nor has an answer, before   *)
(* and after. *)
LEMMA RequestRule ==
  ASSUME IInv, NEW s \in Slots, NEW x, slot' = [slot EXCEPT ![s] = x],
         SlotShape(x), x.n = slot[s].n, x.job = slot[s].job,
         UNCHANGED <<now, limiter, jobs, slack, sunk>>,
         audit \subseteq audit', rows \subseteq rows',
         slot[s].pc \in {"verify", "dispatch", "tool", "propose", "ack", "returned"},
         \/ x.pc \in {"wait", "dispatch", "tool", "propose"}
              /\ slot[s].pc \in {"verify", "dispatch", "tool", "propose"}
         \/ x.pc \in {"ack", "done"} /\ (x.pc = "done" => x.res # "ok"),
         MessageOf(s)'
  PROVE  IInv'
<1>1. slot'[s] = x /\ effects' = effects
  BY ShapeOf DEF slack
<1>2. ClockOf(s)'
  BY <1>1 DEF ClockOf
<1>3. EffectOf(s)'
  <2>1. EffectOf(s)
    BY ShapeOf
  <2> QED BY <1>1, <2>1 DEF EffectOf, Early, Calling, Success
<1> QED BY <1>2, <1>3, QuietBooks, StepRule

LEMMA EndShape ==
  ASSUME IInv, NEW s \in Slots, NEW code
  PROVE  LET x == [End(s, "none") EXCEPT !.status = code] IN
         /\ x = [f \in Fields |-> x[f]] /\ x.pc = "done" /\ x.res = "none" /\ x.text = "none"
         /\ x.job = slot[s].job /\ x.n = slot[s].n /\ x.status = code
         /\ x.gone = slot[s].gone /\ x.lost = slot[s].lost
<1> DEFINE e == End(s, "none")
<1>1. /\ e = [f \in Fields |-> e[f]] /\ e.pc = "done" /\ e.res = "none" /\ e.text = "none"
      /\ e.job = slot[s].job /\ e.n = slot[s].n
      /\ e.gone = slot[s].gone /\ e.lost = slot[s].lost
  BY ZenonT(30), ShapeOf DEF Fields, End
<1> HIDE DEF e
<1> DEFINE x == [e EXCEPT !.status = code]
<1>2. x = [f \in Fields |-> x[f]]
  BY <1>1
<1>3. /\ x.pc = e.pc /\ x.res = e.res /\ x.text = e.text /\ x.job = e.job /\ x.n = e.n
      /\ x.gone = e.gone /\ x.lost = e.lost /\ x.status = code
  BY <1>1 DEF Fields
<1> HIDE DEF x
<1>4. /\ x.pc = "done" /\ x.res = "none" /\ x.text = "none"
      /\ x.job = slot[s].job /\ x.n = slot[s].n /\ x.status = code
      /\ x.gone = slot[s].gone /\ x.lost = slot[s].lost
  BY <1>1, <1>3
<1> QED BY <1>2, <1>4 DEF x, e

LEMMA ServeKeeps ==
  ASSUME IInv, NEW s \in Slots, serveEvents(s)
  PROVE  IInv'
<1> USE ShapeOf
<1> DEFINE d == slot[s].job
           code == readVerified(d, now - slot[s].sent)
           pc == IF d.route = "events" /\ d.type = "event_callback" THEN "dispatch" ELSE "ack"
<1>0. /\ slot[s].pc = "verify" /\ UNCHANGED <<now, limiter, jobs, slack, sunk, rows>>
      /\ \/ \E c \in {code, 400} : c # 0 /\ reject(s, c)
         \/ /\ slot' = [slot EXCEPT ![s].pc = pc, ![s].sent = 0]
            /\ UNCHANGED audit
  BY DEF serveEvents
<1>1. code \in {0, 400, 401, 413}
  BY DEF readVerified, verifySignature
<1> HIDE DEF code
<1>2. ASSUME NEW c \in {code, 400}, c # 0, reject(s, c)
      PROVE  IInv'
  <2> DEFINE x == [End(s, "none") EXCEPT !.status = c]
  <2>1. slot' = [slot EXCEPT ![s] = x] /\ audit \subseteq audit'
    BY <1>2 DEF reject, AuditAppend
  <2>2. /\ x = [f \in Fields |-> x[f]] /\ x.pc = "done" /\ x.res = "none" /\ x.text = "none"
        /\ x.job = slot[s].job /\ x.n = slot[s].n /\ x.status = c
        /\ x.gone = slot[s].gone /\ x.lost = slot[s].lost
    BY EndShape
  <2> HIDE DEF x
  <2>3. slot'[s] = x /\ SlotShape(x)
    BY <2>1, <2>2 DEF SlotShape
  <2>4. MessageOf(s)'
    BY <1>1, <1>2, <2>2, <2>3 DEF MessageOf, Success, Calling
  <2> QED BY <1>0, <2>1, <2>2, <2>3, <2>4, RequestRule
<1>3. ASSUME slot' = [slot EXCEPT ![s].pc = pc, ![s].sent = 0], UNCHANGED audit
      PROVE  IInv'
  <2> DEFINE x == [slot[s] EXCEPT !.pc = pc, !.sent = 0]
  <2>1. slot' = [slot EXCEPT ![s] = x]
    BY <1>3
  <2>2. /\ x = [f \in Fields |-> x[f]] /\ x.pc = pc /\ x.text = slot[s].text
        /\ x.job = slot[s].job /\ x.n = slot[s].n
        /\ x.gone = slot[s].gone /\ x.lost = slot[s].lost
    BY DEF Fields
  <2> HIDE DEF x
  <2>3. slot'[s] = x /\ SlotShape(x)
    BY <2>1, <2>2 DEF SlotShape
  <2>4. MessageOf(s)'
    <3>1. ~Success(s)' /\ (slot'[s].pc = "ack" => ~Owed(s)')
      BY <2>2, <2>3 DEF Success, Owed
    <3>2. slot'[s].pc \in {"dispatch", "ack"}
      BY <2>2, <2>3
    <3> QED BY <1>0, <2>2, <2>3, <3>1, <3>2 DEF MessageOf, Calling
  <2> QED BY <1>0, <1>3, <2>1, <2>2, <2>3, <2>4, RequestRule
<1> QED BY <1>0, <1>2, <1>3

LEMMA ReceivedKeeps ==
  ASSUME IInv, NEW s \in Slots, appendReceived(s)
  PROVE  IInv'
<1> USE ShapeOf
<1> DEFINE x == [End(s, "none") EXCEPT !.status = 200]
<1>1. /\ slot[s].pc = "ack" /\ UNCHANGED <<now, limiter, jobs, slack, sunk, rows>>
      /\ slot' = [slot EXCEPT ![s] = x] /\ audit \subseteq audit'
  BY DEF appendReceived, AuditAppend
<1>2. /\ x = [f \in Fields |-> x[f]] /\ x.pc = "done" /\ x.res = "none" /\ x.text = "none"
      /\ x.job = slot[s].job /\ x.n = slot[s].n
      /\ x.gone = slot[s].gone /\ x.lost = slot[s].lost
  BY EndShape
<1> HIDE DEF x
<1>3. slot'[s] = x /\ SlotShape(x)
  BY <1>1, <1>2 DEF SlotShape
<1>4. MessageOf(s)'
  <2>1. Owed(s)' => Owed(s)
    BY <1>2, <1>3 DEF Owed
  <2>2. (Posted(s) => Posted(s)') /\ (Failed(s) => Failed(s)')
    <3>1. channel' = channel /\ audit \subseteq audit' /\ slot'[s].n = slot[s].n
      BY <1>1, <1>2, <1>3 DEF slack
    <3> QED BY <3>1 DEF Posted, Failed
  <2>3. ~Success(s)' /\ slot'[s].pc = "done" /\ slot'[s].text = "none"
    BY <1>2, <1>3 DEF Success
  <2>4. Owed(s)' => Posted(s)' \/ Failed(s)'
    <3>1. Owed(s) => Posted(s) \/ Failed(s)
      BY <1>1 DEF MessageOf
    <3> QED BY <2>1, <2>2, <3>1
  <2> HIDE ShapeOf
  <2> QED BY <2>3, <2>4 DEF MessageOf, Calling
<1> QED BY <1>1, <1>2, <1>3, <1>4, RequestRule

LEMMA DispatchKeeps ==
  ASSUME IInv, NEW s \in Slots, DispatchEvent(s)
  PROVE  IInv'
<1> USE ShapeOf
<1>0. /\ slot[s].pc = "dispatch" /\ UNCHANGED <<now, limiter, jobs, slack, sunk, rows>>
  BY DEF DispatchEvent
<1>1. CASE IsDM(slot[s].job)
  <2> DEFINE P == Parse(slot[s].job.words)
             pc == CASE P = "propose" -> "propose" [] P = "unknown" -> "wait" [] OTHER -> "tool"
             x == [slot[s] EXCEPT !.pc = pc, !.text = "help", !.method = "chat.postMessage"]
  <2>0. pc \in {"propose", "wait", "tool"}
    BY DEF Parse
  <2>1. slot' = [slot EXCEPT ![s] = x] /\ audit \subseteq audit'
    BY <1>1 DEF DispatchEvent, AuditAppend
  <2> HIDE DEF pc
  <2>2. /\ x = [f \in Fields |-> x[f]] /\ x.pc = pc /\ x.text = "help"
        /\ x.job = slot[s].job /\ x.n = slot[s].n /\ x.method = "chat.postMessage"
        /\ x.gone = slot[s].gone /\ x.lost = slot[s].lost
    BY DEF Fields
  <2> HIDE DEF x
  <2>3. slot'[s] = x /\ SlotShape(x)
    BY <2>1, <2>2 DEF SlotShape
  <2>4. MessageOf(s)'
    BY <2>0, <2>2, <2>3 DEF MessageOf, Success
  <2> QED BY <1>0, <2>0, <2>1, <2>2, <2>3, <2>4, RequestRule
<1>2. CASE ~IsDM(slot[s].job)
  <2> DEFINE x == [slot[s] EXCEPT !.pc = "ack"]
  <2>1. slot' = [slot EXCEPT ![s] = x] /\ audit' = audit
    BY <1>2 DEF DispatchEvent
  <2>2. /\ x = [f \in Fields |-> x[f]] /\ x.pc = "ack" /\ x.text = slot[s].text
        /\ x.job = slot[s].job /\ x.n = slot[s].n
        /\ x.gone = slot[s].gone /\ x.lost = slot[s].lost
    BY DEF Fields
  <2> HIDE DEF x
  <2>3. slot'[s] = x /\ SlotShape(x)
    BY <2>1, <2>2 DEF SlotShape
  <2>4. MessageOf(s)'
    BY <1>0, <1>2, <2>2, <2>3 DEF MessageOf, Success, Calling, Owed
  <2> QED BY <1>0, <2>1, <2>2, <2>3, <2>4, RequestRule
<1> QED BY <1>1, <1>2

LEMMA ApologiseKeeps ==
  ASSUME IInv, NEW s \in Slots, slot[s].pc \in {"tool", "propose"}, Apologise(s),
         UNCHANGED <<now, limiter, jobs, slack, sunk, rows>>
  PROVE  IInv'
<1> USE ShapeOf
<1> DEFINE m == [n |-> slot[s].n, what |-> "dm_failed"]
<1>0. PICK lost \in BOOLEAN :
        /\ audit' = IF lost THEN audit ELSE audit \cup {m}
        /\ slot' = [slot EXCEPT ![s].pc = "wait", ![s].text = "apology", ![s].lost = @ \/ lost]
  BY DEF Apologise
<1> DEFINE x == [slot[s] EXCEPT !.pc = "wait", !.text = "apology", !.lost = slot[s].lost \/ lost]
<1>1. slot' = [slot EXCEPT ![s] = x] /\ audit \subseteq audit'
  BY <1>0
<1>2. /\ x = [f \in Fields |-> x[f]] /\ x.pc = "wait" /\ x.text = "apology"
      /\ x.job = slot[s].job /\ x.n = slot[s].n /\ x.method = slot[s].method
      /\ x.gone = slot[s].gone /\ x.lost = (slot[s].lost \/ lost)
  BY ZenonT(30) DEF Fields
<1> HIDE DEF x
<1>3. slot'[s] = x /\ SlotShape(x)
  BY <1>1, <1>2 DEF SlotShape
<1>4. slot'[s].lost \/ Failed(s)'
  <2>1. ~lost => m \in audit' /\ m = [n |-> slot'[s].n, what |-> "dm_failed"]
    BY <1>0, <1>2, <1>3
  <2>2. lost => slot'[s].lost
    BY <1>2, <1>3
  <2> QED BY <2>1, <2>2 DEF Failed
<1>5. MessageOf(s)'
  BY <1>2, <1>3, <1>4 DEF MessageOf, Success, Calling
<1> QED BY <1>1, <1>2, <1>3, <1>5, RequestRule

LEMMA ReadOnlyKeeps ==
  ASSUME IInv, NEW s \in Slots, handleReadOnly(s)
  PROVE  IInv'
<1> USE ShapeOf
<1>1. /\ slot[s].pc = "tool" /\ UNCHANGED <<now, limiter, jobs, slack, sunk, rows>>
      /\ \/ Apologise(s)
         \/ slot' = [slot EXCEPT ![s].pc = "wait", ![s].text = "report"] /\ audit' = audit
  BY DEF handleReadOnly
<1>2. ASSUME slot' = [slot EXCEPT ![s].pc = "wait", ![s].text = "report"], audit' = audit
      PROVE  IInv'
  <2> DEFINE x == [slot[s] EXCEPT !.pc = "wait", !.text = "report"]
  <2>1. slot' = [slot EXCEPT ![s] = x]
    BY <1>2
  <2>2. /\ x = [f \in Fields |-> x[f]] /\ x.pc = "wait" /\ x.text = "report"
        /\ x.job = slot[s].job /\ x.n = slot[s].n /\ x.method = slot[s].method
        /\ x.gone = slot[s].gone /\ x.lost = slot[s].lost
    BY DEF Fields
  <2> HIDE DEF x
  <2>3. slot'[s] = x /\ SlotShape(x)
    BY <2>1, <2>2 DEF SlotShape
  <2>4. MessageOf(s)'
    BY ZenonT(30), <1>1, <2>2, <2>3 DEF MessageOf, Success
  <2> QED BY <1>1, <1>2, <2>1, <2>2, <2>3, <2>4, RequestRule
<1> QED BY <1>1, <1>2, ApologiseKeeps

LEMMA ProposeKeeps ==
  ASSUME IInv, NEW s \in Slots, handlePropose(s)
  PROVE  IInv'
<1> USE ShapeOf
<1>1. /\ slot[s].pc = "propose" /\ UNCHANGED <<now, limiter, jobs, slack, sunk>>
      /\ \/ Apologise(s) /\ UNCHANGED rows
         \/ /\ slot' = [slot EXCEPT ![s].pc = "wait", ![s].text = "card"]
            /\ rows' = rows \cup {slot[s].n} /\ audit' = audit
  BY DEF handlePropose
<1>2. ASSUME slot' = [slot EXCEPT ![s].pc = "wait", ![s].text = "card"],
             rows' = rows \cup {slot[s].n}, audit' = audit
      PROVE  IInv'
  <2> DEFINE x == [slot[s] EXCEPT !.pc = "wait", !.text = "card"]
  <2>1. slot' = [slot EXCEPT ![s] = x]
    BY <1>2
  <2>2. /\ x = [f \in Fields |-> x[f]] /\ x.pc = "wait" /\ x.text = "card"
        /\ x.job = slot[s].job /\ x.n = slot[s].n /\ x.method = slot[s].method
        /\ x.gone = slot[s].gone /\ x.lost = slot[s].lost
    BY DEF Fields
  <2> HIDE DEF x
  <2>3. slot'[s] = x /\ SlotShape(x)
    BY <2>1, <2>2 DEF SlotShape
  <2>4. MessageOf(s)'
    <3>1. slot'[s].n \in rows'
      BY <1>2, <2>2, <2>3
    <3>2. ~Success(s)' /\ slot'[s].pc = "wait" /\ slot'[s].text = "card"
      BY <2>2, <2>3 DEF Success
    <3>3. slot'[s].job.kind = "http" => slot'[s].method = "chat.postMessage"
      BY ZenonT(30), <1>1, <2>2, <2>3 DEF MessageOf
    <3> QED BY <3>1, <3>2, <3>3 DEF MessageOf
  <2> QED BY <1>1, <1>2, <2>1, <2>2, <2>3, <2>4, RequestRule
<1> QED BY <1>1, <1>2, ApologiseKeeps

LEMMA AfterPostKeeps ==
  ASSUME IInv, NEW s \in Slots, AfterPost(s)
  PROVE  IInv'
<1> USE ShapeOf
<1> DEFINE m == [n |-> slot[s].n,
                 what |-> IF slot[s].res = "ok" THEN "dm_dispatched" ELSE "dm_failed"]
<1>1. /\ slot[s].pc = "returned" /\ slot[s].job.kind = "http"
      /\ UNCHANGED <<now, limiter, jobs, slack, sunk, rows>>
  BY DEF AfterPost
<1>2. ASSUME NEW x, slot' = [slot EXCEPT ![s] = x], SlotShape(x),
             x.pc = "ack", x.text = slot[s].text, x.job = slot[s].job, x.n = slot[s].n,
             x.gone = slot[s].gone, slot[s].lost => x.lost, audit \subseteq audit',
             slot[s].text = "apology" \/ slot[s].res = "ok" \/ x.lost
               \/ [n |-> slot[s].n, what |-> "dm_failed"] \in audit'
      PROVE  IInv'
  <2>1. slot'[s] = x
    BY <1>2
  <2>4. slot'[s].lost \/ Posted(s)' \/ Failed(s)'
    <3>1. channel' = channel /\ slot'[s].n = slot[s].n
      BY <1>1, <1>2, <2>1 DEF slack
    <3>2. (Posted(s) => Posted(s)') /\ (Failed(s) => Failed(s)')
      BY <1>2, <3>1 DEF Posted, Failed
    <3>3. slot[s].text = "apology" => slot[s].lost \/ Failed(s)
      BY <1>1 DEF MessageOf
    <3>4. slot[s].res = "ok" => Posted(s)
      BY <1>1 DEF MessageOf, Success
    <3>5. slot[s].lost \/ x.lost => slot'[s].lost
      BY <1>2, <2>1
    <3>6. [n |-> slot[s].n, what |-> "dm_failed"] \in audit' => Failed(s)'
      BY <3>1 DEF Failed
    <3> QED BY <1>2, <3>2, <3>3, <3>4, <3>5, <3>6
  <2>5. MessageOf(s)'
    <3>1. ~Success(s)' /\ (Owed(s)' => Posted(s)' \/ Failed(s)')
      BY <1>2, <2>1, <2>4 DEF Success, Owed
    <3> QED BY <1>1, <1>2, <2>1, <3>1 DEF MessageOf, Calling
  <2> QED BY <1>1, <1>2, <2>5, RequestRule
<1>3. CASE slot[s].text = "apology"
  <2> DEFINE x == [slot[s] EXCEPT !.pc = "ack"]
  <2>1. slot' = [slot EXCEPT ![s] = x] /\ audit' = audit
    BY <1>3 DEF AfterPost
  <2>2. /\ SlotShape(x) /\ x.pc = "ack" /\ x.text = slot[s].text /\ x.job = slot[s].job
        /\ x.n = slot[s].n /\ x.gone = slot[s].gone /\ x.lost = slot[s].lost
    BY DEF Fields, SlotShape
  <2> HIDE DEF x
  <2> QED BY <1>2, <1>3, <2>1, <2>2
<1>4. CASE slot[s].text # "apology"
  <2>1. PICK lost \in BOOLEAN :
          /\ audit' = IF lost THEN audit ELSE audit \cup {m}
          /\ slot' = [slot EXCEPT ![s].pc = "ack", ![s].lost = @ \/ lost]
    BY <1>4 DEF AfterPost, AuditAppend
  <2> DEFINE x == [slot[s] EXCEPT !.pc = "ack", !.lost = slot[s].lost \/ lost]
  <2>2. slot' = [slot EXCEPT ![s] = x] /\ audit \subseteq audit'
    BY <2>1
  <2>3. /\ SlotShape(x) /\ x.pc = "ack" /\ x.text = slot[s].text /\ x.job = slot[s].job
        /\ x.n = slot[s].n /\ x.gone = slot[s].gone /\ x.lost = (slot[s].lost \/ lost)
    BY ZenonT(30) DEF Fields, SlotShape
  <2> HIDE DEF x
  <2>4. slot[s].res = "ok" \/ lost \/ [n |-> slot[s].n, what |-> "dm_failed"] \in audit'
    BY <2>1
  <2> QED BY <1>2, <2>2, <2>3, <2>4
<1> QED BY <1>3, <1>4

LEMMA TickKeeps ==
  ASSUME IInv, Tick
  PROVE  IInv'
<1>1. /\ now' = now + 1
      /\ bucket' = bucket /\ granted' = granted /\ rewound' = rewound /\ slot' = slot
      /\ jobs' = jobs /\ effects' = effects /\ channel' = channel
      /\ sunk' = sunk /\ rows' = rows /\ audit' = audit
  BY DEF Tick, limiter, slack, stores
<1>2. now \in Nat
  BY DEF IInv, Books
<1>3. Books'
  <2>1. ASSUME NEW t \in Tiers PROVE Book(t)'
    BY <1>1, <1>2 DEF IInv, Books, Book
  <2> QED BY <1>1, <1>2, <2>1 DEF IInv, Books
<1>4. ASSUME NEW p \in Slots PROVE Own(p)'
  <2>1. Own(p)
    BY DEF IInv
  <2>2. NumberOf(p)' /\ EffectOf(p)' /\ SlotShape(slot'[p])
    BY <1>1, <2>1 DEF Own, NumberOf, EffectOf, Success
  <2>3. ClockOf(p)'
    BY <1>1, <1>2, <2>1 DEF Own, ClockOf
  <2>4. MessageOf(p)'
    BY <1>1, <2>1 DEF Own, MessageOf, Success, Posted, Failed, Owed
  <2> QED BY <2>2, <2>3, <2>4 DEF Own, SlotShape
<1>5. Numbers' /\ Effects' /\ CardHasRow'
  BY <1>1 DEF IInv, Numbers, Effects, CardHasRow
<1> QED BY <1>1, <1>3, <1>4, <1>5 DEF IInv
-----------------------------------------------------------------------------
LEMMA InitIInv == ClientInit => IInv
<1> SUFFICES ASSUME ClientInit PROVE IInv
  OBVIOUS
<1>1. /\ now = 0 /\ jobs = 0 /\ effects = [n \in 1..MaxJobs |-> 0] /\ channel = {}
      /\ slot = [s \in Slots |-> Idle] /\ bucket = [t \in Tiers |-> newBucket(t)] /\ sunk = {}
      /\ granted = [t \in Tiers |-> 0] /\ rewound = [t \in Tiers |-> 0]
  BY DEF ClientInit
<1>2. ASSUME NEW s \in Slots PROVE Own(s)
  <2>1. slot[s] = Idle
    BY <1>1
  <2>2. /\ SlotShape(Idle) /\ Idle.pc = "idle" /\ Idle.n = 0 /\ Idle.text = "none"
        /\ Idle.job = [kind |-> "none"]
    BY DEF SlotShape, Fields, Idle
  <2>3. SlotShape(slot[s]) /\ NumberOf(s) /\ ClockOf(s)
    BY <1>1, <2>1, <2>2 DEF NumberOf, ClockOf
  <2>4. EffectOf(s) /\ MessageOf(s)
    BY <2>1, <2>2 DEF EffectOf, MessageOf, Early, Calling, Success, Owed
  <2> QED BY <2>3, <2>4 DEF Own
<1>3. Numbers /\ Effects /\ CardHasRow
  <2>1. Numbers
    <3>1. \A s \in Slots : slot[s].n = 0
      BY <1>1 DEF Idle
    <3> QED BY <1>1, <3>1, JobsAssumption DEF Numbers
  <2> QED BY <1>1, <2>1, JobsAssumption DEF Effects, CardHasRow
<1>4. ASSUME NEW t \in Tiers PROVE Book(t)
  <2> DEFINE B == Limits[t].burst * Limits[t].window
  <2>1. bucket[t] = [tokens |-> B, last |-> 0] /\ granted[t] = 0 /\ rewound[t] = 0
    BY <1>1 DEF newBucket
  <2>2. /\ B \in Nat /\ 0 * Limits[t].window = 0 /\ (0 + 0) * Limits[t].sustained = 0
    BY LimitsArePositive
  <2> HIDE DEF B
  <2>3. bucket[t].tokens + granted[t] * Limits[t].window
          <= B + (bucket[t].last + rewound[t]) * Limits[t].sustained
    BY <2>1, <2>2
  <2> QED BY <1>1, <2>1, <2>2, <2>3 DEF Book, B
<1> QED BY <1>1, <1>2, <1>3, <1>4 DEF IInv, Books

LEMMA StepKeeps ==
  ASSUME IInv, NEW s \in Slots, Step(s)
  PROVE  IInv'
<1>1. CASE DoStep(s)
  BY <1>1, WaitKeeps, TakeKeeps, WakeKeeps, WakeCancelledKeeps, DoKeeps, DecodeKeeps DEF DoStep
<1>2. CASE AfterCall(s)
  BY <1>2, AfterCallKeeps
<1>3. CASE serveEvents(s)
  BY <1>3, ServeKeeps
<1>4. CASE appendReceived(s)
  BY <1>4, ReceivedKeeps
<1>5. CASE DispatchEvent(s)
  BY <1>5, DispatchKeeps
<1>6. CASE handleReadOnly(s)
  BY <1>6, ReadOnlyKeeps
<1>7. CASE handlePropose(s)
  BY <1>7, ProposeKeeps
<1>8. CASE AfterPost(s)
  BY <1>8, AfterPostKeeps
<1> QED BY <1>1, <1>2, <1>3, <1>4, <1>5, <1>6, <1>7, <1>8 DEF Step

LEMMA InvStep == IInv /\ [ClientNext]_clientVars => IInv'
<1> SUFFICES ASSUME IInv, [ClientNext]_clientVars PROVE IInv'
  OBVIOUS
<1>1. CASE ClientNext
  BY <1>1, BeginKeeps, StepKeeps, CancelKeeps, TickKeeps DEF ClientNext
<1>2. CASE UNCHANGED clientVars
  <2>1. /\ now' = now /\ bucket' = bucket /\ granted' = granted /\ rewound' = rewound
        /\ slot' = slot /\ jobs' = jobs /\ effects' = effects /\ channel' = channel
        /\ sunk' = sunk /\ rows' = rows /\ audit' = audit
    BY <1>2 DEF clientVars, limiter, slack, stores
  <2>2. ASSUME NEW p \in Slots PROVE Own(p)'
    <3>1. Own(p)
      BY DEF IInv
    <3> QED BY <2>1, <3>1 DEF Own, SlotShape, NumberOf, ClockOf, EffectOf, MessageOf, Success,
                              Posted, Failed, Owed
  <2>3. Books'
    BY <2>1 DEF IInv, Books, Book
  <2> QED BY <2>1, <2>2, <2>3 DEF IInv, Numbers, Effects, CardHasRow
<1> QED BY <1>1, <1>2

LEMMA Invariance == ClientSpec => []IInv
BY InitIInv, InvStep, PTL DEF ClientSpec

(* What a bucket credited is within the time that has passed, so the rate    *)
(* holds of the clock too.                                                   *)
LEMMA BooksKeepRate == IInv => RateKept
<1> SUFFICES ASSUME IInv, NEW t \in Tiers
             PROVE  granted[t] * Limits[t].window <=
                      Limits[t].burst * Limits[t].window + (now + rewound[t]) * Limits[t].sustained
  BY DEF RateKept
<1> DEFINE S == Limits[t].sustained  B == Limits[t].burst * Limits[t].window
           G == granted[t] * Limits[t].window  L == bucket[t].last  R == rewound[t]
           K == bucket[t].tokens
<1>1. /\ S \in Nat /\ B \in Nat /\ G \in Nat /\ L \in Nat /\ R \in Nat /\ K \in Nat
      /\ now \in Nat /\ L <= now /\ K + G <= B + (L + R) * S
  BY LimitsArePositive DEF IInv, Books, Book
<1> HIDE DEF S, B, G, L, R, K
<1>2. (now + R) * S = (L + R) * S + (now - L) * S
  <2>1. now + R = (L + R) + (now - L)
    BY <1>1
  <2> QED BY <1>1, <2>1, Distribute
<1>3. (now - L) * S \in Nat /\ (L + R) * S \in Nat
  BY <1>1
<1>4. G <= B + (now + R) * S
  BY <1>1, <1>2, <1>3
<1> QED BY <1>4 DEF S, B, G, R

(* ratelimiter.go: whatever the goroutines' order, their cancellations and   *)
(* the clocks they read, no tier hands out more than its burst and its       *)
(* sustained rate, but for the time that refills moved back.                 *)
THEOREM RateHolds == ClientSpec => []RateKept
BY Invariance, BooksKeepRate, PTL

(* client.go, create_app.go, install_app.go: a call takes effect at most     *)
(* once, a success it reports is one, a sink holds only what Slack handed    *)
(* out, and every install, and every app created with a sink, is in it.      *)
THEOREM EffectsAreReal == ClientSpec => []EffectOnce
<1>1. IInv => EffectOnce
  <2> SUFFICES ASSUME IInv PROVE EffectOnce
    OBVIOUS
  <2>1. \A n \in 1..MaxJobs : effects[n] <= 1
    BY DEF IInv, Effects
  <2>2. \A n \in sunk : effects[n] = 1
    BY DEF IInv, Effects
  <2>3. \A s \in Slots : EffectOf(s)
    BY DEF IInv, Own
  <2> QED BY <2>1, <2>2, <2>3 DEF EffectOnce, EffectOf
<1> QED BY <1>1, Invariance, PTL

(* dm/dispatcher.go, inbound/handler.go: a card in the channel has its       *)
(* request stored, and a direct message that was acknowledged was answered   *)
(* or has an audit row that says why not.                                    *)
THEOREM MessagesAccounted == ClientSpec => []DMIsAccounted
<1>1. IInv => DMIsAccounted
  <2> SUFFICES ASSUME IInv PROVE DMIsAccounted
    OBVIOUS
  <2>1. CardHasRow
    BY DEF IInv
  <2>2. \A s \in Slots : MessageOf(s)
    BY DEF IInv, Own
  <2>3. NoSilentDM
    BY <2>2 DEF NoSilentDM, MessageOf, Owed, Posted, Failed
  <2> QED BY <2>1, <2>3 DEF DMIsAccounted
<1> QED BY <1>1, Invariance, PTL
-----------------------------------------------------------------------------
(* Socket mode *)

(* Where the subscription has no connection of its own yet, or any more.      *)
Apart == {"none", "failed", "opening", "dial", "hello", "swap", "sleep"}
Greeting == {"hello", "swap"}
InSession == {"read", "ack", "dispatch", "drain", "drainDone", "join", "joinDone"}
Alive == {c \in Conns : sock[c] \in {"open", "mute"}}

(* The connection that may be alive: the newest while it is greeted, else the *)
(* subscription's.                                                            *)
Holder == IF loop \in Greeting THEN Newest ELSE cur

(* Connections are dialled one after the other, and all but one are over.     *)
Line ==
  /\ sock \in [Conns -> {"none", "open", "mute", "closed"}]
  /\ \E k \in 0..(MaxFaults + 2) : Opened = 1..k
  /\ cur \in Opened \cup {0}
  /\ Alive \subseteq {Holder}
  /\ loop \in Apart => cur = 0

(* The pump has a session, what was acknowledged is on its way to the        *)
(* handler, and Stop waited for the loop.                                    *)
Work ==
  /\ pump # "off" => loop \in InSession
  /\ \A e \in acked : decodeIncoming(e) => e \in handled \/ (loop = "dispatch" /\ e = inHand)
  /\ stop = "returned" => loop = "done"

SocketInv == Line /\ Work

LEMMA NewestIs ==
  ASSUME NEW k \in 0..(MaxFaults + 2), Opened = 1..k
  PROVE  Newest = k
BY FaultsAssumption, FS_Interval DEF Newest

(* A step that changes no connection but to end it, or to hear no more of it, *)
(* and moves the loop between neither greeting nor session.                   *)
LEMMA LineRule ==
  ASSUME Line, sock' \in [Conns -> {"none", "open", "mute", "closed"}],
         Opened' = Opened, Alive' \subseteq Alive, cur' = cur,
         loop' \in Greeting <=> loop \in Greeting, loop' \in Apart => loop \in Apart
  PROVE  Line'
<1>1. Newest' = Newest
  BY DEF Newest
<1>2. Holder' = Holder
  BY <1>1 DEF Holder
<1>3. PICK k \in 0..(MaxFaults + 2) : Opened = 1..k
  BY DEF Line
<1>4. \E m \in 0..(MaxFaults + 2) : Opened' = 1..m
  BY <1>3
<1> QED BY <1>2, <1>4 DEF Line

LEMMA SameSockets ==
  ASSUME sock' = sock
  PROVE  Opened' = Opened /\ Alive' = Alive
BY DEF Opened, Alive

LEMMA LineStays ==
  ASSUME Line, sock' = sock, cur' = cur,
         loop' \in Greeting <=> loop \in Greeting, loop' \in Apart => loop \in Apart
  PROVE  Line'
<1>1. sock' \in [Conns -> {"none", "open", "mute", "closed"}]
  BY DEF Line
<1> QED BY <1>1, SameSockets, LineRule

(* Ending a connection that was opened, or none. *)
LEMMA DropEnds ==
  ASSUME Line, NEW c, NEW to \in {"mute", "closed"}, c \in Opened \cup {0},
         to = "mute" => c \in Alive, sock' = [sock EXCEPT ![c] = to]
  PROVE  /\ sock' \in [Conns -> {"none", "open", "mute", "closed"}]
         /\ Opened' = Opened /\ Alive' \subseteq Alive
         /\ to = "closed" => Alive' = Alive \ {c}
<1>1. sock \in [Conns -> {"none", "open", "mute", "closed"}]
  BY DEF Line
<1>2. sock' \in [Conns -> {"none", "open", "mute", "closed"}]
  BY <1>1
<1>3. \A d \in Conns : sock'[d] = IF d = c THEN to ELSE sock[d]
  BY <1>1
<1>4. c \in Conns => sock[c] # "none"
  <2>1. 0 \notin Conns
    BY FaultsAssumption DEF Conns
  <2> QED BY <2>1 DEF Opened
<1>5. Opened' = Opened
  BY <1>3, <1>4 DEF Opened
<1>6. Alive' \subseteq Alive
  BY <1>3 DEF Alive
<1>7. to = "closed" => Alive' = Alive \ {c}
  BY <1>3 DEF Alive
<1> QED BY <1>2, <1>5, <1>6, <1>7

(* Nothing is alive when the loop is apart and greets nobody. *)
LEMMA NothingAlive ==
  ASSUME Line, loop \in Apart \ Greeting
  PROVE  Alive = {}
<1>1. Alive \subseteq {0}
  BY DEF Line, Holder
<1>2. 0 \notin Alive
  BY FaultsAssumption DEF Alive, Conns
<1> QED BY <1>1, <1>2

(* A step after which nothing is alive. *)
LEMMA EmptyRule ==
  ASSUME Line, sock' \in [Conns -> {"none", "open", "mute", "closed"}],
         Opened' = Opened, Alive' = {}, cur' = 0
  PROVE  Line'
<1>1. PICK k \in 0..(MaxFaults + 2) : Opened = 1..k
  BY DEF Line
<1>2. \E m \in 0..(MaxFaults + 2) : Opened' = 1..m
  BY <1>1
<1> QED BY <1>2 DEF Line

(* The pump and the acknowledgements, in a step that touches neither Stop    *)
(* nor what is in hand.                                                      *)
LEMMA WorkRule ==
  ASSUME Work, acked' = acked, handled' = handled, inHand' = inHand, stop' = stop,
         loop # "done", loop # "dispatch", pump' # "off" => loop' \in InSession
  PROVE  Work'
BY DEF Work, decodeIncoming
LEMMA FailedTo == OpenFailed => loop' \in {"failed", "check", "sleep"}
BY DEF OpenFailed

LEMMA OpenKeeps ==
  ASSUME SocketInv, openSocketModeConn
  PROVE  SocketInv'
<1>1. /\ loop = "opening" /\ cur' = cur /\ sock' = sock /\ pump' = pump
      /\ acked' = acked /\ handled' = handled /\ inHand' = inHand /\ stop' = stop
  BY DEF openSocketModeConn, network, session, outcome
<1>2. loop' \in {"dial", "failed", "check", "sleep"}
  BY FailedTo DEF openSocketModeConn
<1>3. Line'
  <2>1. Line /\ loop \in Apart \ Greeting
    BY <1>1 DEF SocketInv, Apart, Greeting
  <2>2. Alive = {} /\ cur = 0
    BY <2>1, NothingAlive DEF Line
  <2> QED BY <1>1, <2>1, <2>2, SameSockets, EmptyRule DEF Line
<1>4. Work'
  BY <1>1, <1>2, WorkRule DEF SocketInv, Work, InSession
<1> QED BY <1>3, <1>4 DEF SocketInv

LEMMA DialKeeps ==
  ASSUME SocketInv, dialWebSocket
  PROVE  SocketInv'
<1>1. /\ loop = "dial" /\ cur' = cur /\ pump' = pump
      /\ acked' = acked /\ handled' = handled /\ inHand' = inHand /\ stop' = stop
  BY DEF dialWebSocket, session, outcome
<1>2. Line /\ Alive = {} /\ cur = 0
  <2>1. Line /\ loop \in Apart \ Greeting
    BY <1>1 DEF SocketInv, Apart, Greeting
  <2> QED BY <2>1, NothingAlive DEF Line
<1>3. CASE sock' = sock /\ OpenFailed
  <2>1. Line'
    BY <1>1, <1>2, <1>3, SameSockets, EmptyRule DEF Line
  <2>2. Work'
    BY <1>1, <1>3, FailedTo, WorkRule DEF SocketInv, Work, InSession
  <2> QED BY <2>1, <2>2 DEF SocketInv
<1>4. CASE sock' = [sock EXCEPT ![Newest + 1] = "open"] /\ loop' = "hello"
  <2>1. PICK k \in 0..(MaxFaults + 2) : Opened = 1..k
    BY <1>2 DEF Line
  <2>2. Newest = k /\ k \in Nat
    BY <2>1, NewestIs, FaultsAssumption
  <2>3. /\ sock \in [Conns -> {"none", "open", "mute", "closed"}]
        /\ sock' = [sock EXCEPT ![k + 1] = "open"]
    BY <1>2, <1>4, <2>2 DEF Line
  <2>4. sock' \in [Conns -> {"none", "open", "mute", "closed"}]
    BY <2>3
  <2>5. \A d \in Conns : sock'[d] = IF d = k + 1 THEN "open" ELSE sock[d]
    BY <2>3
  <2>6. Alive' \subseteq {k + 1} \cap Conns
    BY <1>2, <2>5 DEF Alive
  <2>7. ASSUME k + 1 \in Conns PROVE Line'
    <3>1. Opened' = 1..(k + 1)
      <4>1. \A d : d \in Opened' <=> d \in Opened \/ d = k + 1
        BY <2>5, <2>7 DEF Opened
      <4>2. \A d : d \in 1..(k + 1) <=> d \in 1..k \/ d = k + 1
        BY <2>2
      <4> QED BY <2>1, <4>1, <4>2
    <3>2. k + 1 \in 0..(MaxFaults + 2)
      BY <2>2, <2>7, FaultsAssumption DEF Conns
    <3>3. Newest' = k + 1
      BY <2>2, <3>1, FS_Interval DEF Newest
    <3>4. Alive' \subseteq {Holder'}
      BY <1>4, <2>6, <3>3 DEF Holder, Greeting
    <3>5. \E m \in 0..(MaxFaults + 2) : Opened' = 1..m
      BY <3>1, <3>2
    <3> QED BY <1>1, <1>2, <2>4, <3>4, <3>5 DEF Line
  <2>8. ASSUME k + 1 \notin Conns PROVE Line'
    <3>1. Alive' = {} /\ Opened' = Opened
      BY <2>5, <2>6, <2>8 DEF Opened
    <3> QED BY <1>1, <1>2, <2>4, <3>1, EmptyRule
  <2>9. Work'
    BY <1>1, <1>4, WorkRule DEF SocketInv, Work, InSession
  <2> QED BY <2>7, <2>8, <2>9 DEF SocketInv
<1> QED BY <1>3, <1>4 DEF dialWebSocket

LEMMA HelloKeeps ==
  ASSUME SocketInv, awaitHello
  PROVE  SocketInv'
<1>1. /\ loop = "hello" /\ pump' = pump /\ stop' = stop
      /\ acked' = acked /\ handled' = handled /\ inHand' = inHand
  BY DEF awaitHello, session, outcome
<1>2. Line /\ cur = 0 /\ Alive \subseteq {Newest}
  BY <1>1 DEF SocketInv, Line, Holder, Apart, Greeting
<1>3. CASE /\ sock[Newest] = "open" /\ loop' = (IF attempt = 0 THEN "check" ELSE "swap")
           /\ cur' = (IF attempt = 0 THEN Newest ELSE cur) /\ sock' = sock
  <2>1. Opened' = Opened /\ Alive' = Alive /\ Newest' = Newest
    BY <1>3, SameSockets DEF Newest
  <2>2. PICK k \in 0..(MaxFaults + 2) : Opened = 1..k
    BY <1>2 DEF Line
  <2>3. Newest \in Opened \cup {0}
    BY <2>2, NewestIs
  <2>4. Alive' \subseteq {Holder'}
    BY <1>2, <1>3, <2>1 DEF Holder, Greeting
  <2>5. loop' \in Apart => cur' = 0
    BY <1>2, <1>3 DEF Apart
  <2>6. sock' \in [Conns -> {"none", "open", "mute", "closed"}] /\ cur' \in Opened' \cup {0}
    BY <1>2, <1>3, <2>1, <2>3 DEF Line
  <2>7. \E m \in 0..(MaxFaults + 2) : Opened' = 1..m
    BY <2>1, <2>2
  <2>8. Line'
    BY <2>4, <2>5, <2>6, <2>7 DEF Line
  <2>9. Work'
    BY <1>1, <1>3, WorkRule DEF SocketInv, Work, InSession
  <2> QED BY <2>8, <2>9 DEF SocketInv
<1>4. CASE sock' = [sock EXCEPT ![Newest] = "closed"] /\ OpenFailed /\ cur' = cur
  <2>1. PICK k \in 0..(MaxFaults + 2) : Opened = 1..k
    BY <1>2 DEF Line
  <2>2. Newest \in Opened \cup {0}
    BY <2>1, NewestIs
  <2>3. /\ sock' \in [Conns -> {"none", "open", "mute", "closed"}]
        /\ Opened' = Opened /\ Alive' = {}
    BY <1>2, <1>4, <2>2, DropEnds
  <2>4. Line'
    BY <1>2, <1>4, <2>3, EmptyRule
  <2>5. Work'
    BY <1>1, <1>4, FailedTo, WorkRule DEF SocketInv, Work, InSession
  <2> QED BY <2>4, <2>5 DEF SocketInv
<1> QED BY <1>3, <1>4 DEF awaitHello, Drop, network

LEMMA SwapKeeps ==
  ASSUME SocketInv, swapConn
  PROVE  SocketInv'
<1>1. /\ loop = "swap" /\ cur' = Newest /\ loop' = "check" /\ sock' = sock
      /\ pump' = pump /\ acked' = acked /\ handled' = handled /\ inHand' = inHand
      /\ stop' = stop
  BY DEF swapConn, network, session, outcome
<1>2. Line /\ Alive \subseteq {Newest}
  BY <1>1 DEF SocketInv, Line, Holder, Greeting
<1>3. Opened' = Opened /\ Alive' = Alive
  BY <1>1, SameSockets
<1>4. PICK k \in 0..(MaxFaults + 2) : Opened = 1..k
  BY <1>2 DEF Line
<1>5. cur' \in Opened' \cup {0} /\ \E m \in 0..(MaxFaults + 2) : Opened' = 1..m
  BY <1>1, <1>3, <1>4, NewestIs
<1>6. Alive' \subseteq {Holder'}
  BY <1>1, <1>2, <1>3 DEF Holder, Greeting
<1>7. Line'
  BY <1>1, <1>2, <1>5, <1>6 DEF Line, Apart
<1>8. Work'
  BY <1>1, WorkRule DEF SocketInv, Work, InSession
<1> QED BY <1>7, <1>8 DEF SocketInv

LEMMA TearDownKeeps ==
  ASSUME SocketInv, tearDownConn
  PROVE  SocketInv'
<1>1. /\ loop = "teardown" /\ cur' = 0 /\ sock' = [sock EXCEPT ![cur] = "closed"]
      /\ loop' = "sleep" /\ pump' = pump /\ acked' = acked /\ handled' = handled
      /\ inHand' = inHand /\ stop' = stop
  BY DEF tearDownConn, Drop, session, outcome
<1>2. Line /\ Alive \subseteq {cur} /\ cur \in Opened \cup {0}
  BY <1>1 DEF SocketInv, Line, Holder, Greeting
<1>3. /\ sock' \in [Conns -> {"none", "open", "mute", "closed"}]
      /\ Opened' = Opened /\ Alive' = {}
  BY <1>1, <1>2, DropEnds
<1>4. Line'
  BY <1>1, <1>2, <1>3, EmptyRule
<1>5. Work'
  BY <1>1, WorkRule DEF SocketInv, Work, InSession
<1> QED BY <1>4, <1>5 DEF SocketInv
(* A step of the loop or of the pump that leaves the connections alone. *)
LEMMA InPlace ==
  ASSUME SocketInv, network' = network, cur' = cur, Work',
         loop' \in Greeting <=> loop \in Greeting, loop' \in Apart => loop \in Apart
  PROVE  SocketInv'
BY LineStays DEF SocketInv, network

LEMMA SessionKeeps ==
  ASSUME SocketInv, sessionLoop \/ PumpReads \/ PumpPasses
  PROVE  SocketInv'
<1>1. CASE sessionLoop
  <2>1. /\ loop = "check" /\ cur' = cur /\ network' = network
        /\ acked' = acked /\ handled' = handled /\ inHand' = inHand /\ stop' = stop
        /\ (loop' = "done" /\ pump' = pump) \/ loop' = "read"
    BY <1>1 DEF sessionLoop, network, session, outcome
  <2>2. Work'
    BY <2>1, WorkRule DEF SocketInv, Work, InSession
  <2> QED BY <2>1, <2>2, InPlace DEF Apart, Greeting
<1>2. CASE PumpReads \/ PumpPasses
  <2>1. /\ pump \in {"reading", "full"} /\ loop' = loop /\ cur' = cur /\ sock' = sock
        /\ acked' = acked /\ handled' = handled /\ inHand' = inHand /\ stop' = stop
    BY <1>2 DEF PumpReads, PumpPasses, network, outcome
  <2>2. Line'
    BY <2>1, LineStays DEF SocketInv
  <2>3. Work'
    BY <2>1 DEF SocketInv, Work, decodeIncoming
  <2> QED BY <2>2, <2>3 DEF SocketInv
<1> QED BY <1>1, <1>2

LEMMA LeaveKeeps ==
  ASSUME SocketInv, ReadStopped \/ sendPing \/ PongTimeout
  PROVE  SocketInv'
<1>1. /\ loop = "read" /\ cur' = cur /\ network' = network
      /\ acked' = acked /\ handled' = handled /\ inHand' = inHand /\ stop' = stop
      /\ loop' \in {"read", "drain", "drainDone"}
  BY DEF ReadStopped, sendPing, PongTimeout, Leave, outcome
<1>2. Work'
  BY <1>1, WorkRule DEF SocketInv, InSession
<1> QED BY <1>1, <1>2, InPlace DEF Apart, Greeting

LEMMA ReadKeeps ==
  ASSUME SocketInv, ReadResult
  PROVE  SocketInv'
<1>1. /\ loop = "read" /\ cur' = cur /\ network' = network
      /\ acked' = acked /\ handled' = handled /\ stop' = stop
      /\ loop' \in {"read", "join", "joinDone", "ack"}
  BY DEF ReadResult, Leave
<1>2. Work'
  BY <1>1 DEF SocketInv, Work, InSession, decodeIncoming
<1> QED BY <1>1, <1>2, InPlace DEF Apart, Greeting

LEMMA DrainKeeps ==
  ASSUME SocketInv, drainReadPump \/ JoinPump
  PROVE  SocketInv'
<1>1. /\ loop \in {"drain", "drainDone", "join", "joinDone"} /\ cur' = cur
      /\ network' = network /\ pump' = pump
      /\ acked' = acked /\ handled' = handled /\ inHand' = inHand /\ stop' = stop
      /\ loop' = loop \/ (pump = "off" /\ loop' \in {"teardown", "done"})
  BY DEF drainReadPump, JoinPump, session, outcome
<1>2. Work'
  BY <1>1, WorkRule DEF SocketInv, InSession
<1> QED BY <1>1, <1>2, InPlace DEF Apart, Greeting

(* What is acknowledged is in hand until the handler has it. *)
LEMMA AckKeeps ==
  ASSUME SocketInv, ackEnvelope
  PROVE  SocketInv'
<1>1. /\ loop = "ack" /\ loop' = "dispatch" /\ cur' = cur /\ network' = network
      /\ handled' = handled /\ inHand' = inHand /\ stop' = stop
      /\ acked' \subseteq acked \cup {inHand}
  BY DEF ackEnvelope
<1>2. Work'
  BY <1>1 DEF SocketInv, Work, InSession, decodeIncoming
<1> QED BY <1>1, <1>2, InPlace DEF Apart, Greeting

LEMMA DispatchSockKeeps ==
  ASSUME SocketInv, dispatch
  PROVE  SocketInv'
<1>1. /\ loop = "dispatch" /\ loop' = "read" /\ cur' = cur /\ network' = network
      /\ stop' = stop /\ acked' = acked
      /\ handled' = IF decodeIncoming(inHand) THEN handled \cup {inHand} ELSE handled
  BY DEF dispatch
<1>2. Work'
  <2>1. ASSUME NEW e \in acked', decodeIncoming(e)' PROVE e \in handled'
    <3>1. decodeIncoming(e) /\ e \in acked
      BY <1>1, <2>1 DEF decodeIncoming
    <3>2. e \in handled \/ e = inHand
      BY <3>1 DEF SocketInv, Work
    <3> QED BY <1>1, <3>1, <3>2
  <2> QED BY <1>1, <2>1 DEF SocketInv, Work, InSession
<1> QED BY <1>1, <1>2, InPlace DEF Apart, Greeting

LEMMA BetweenKeeps ==
  ASSUME SocketInv, Subscribe \/ reconnect
  PROVE  SocketInv'
<1>1. /\ loop \in {"none", "sleep"} /\ loop' \in {"opening", "check"} /\ cur' = cur
      /\ network' = network /\ pump' = pump
      /\ acked' = acked /\ handled' = handled /\ inHand' = inHand /\ stop' = stop
  BY DEF Subscribe, reconnect, Open, session, outcome
<1>2. Work'
  BY <1>1, WorkRule DEF SocketInv, Work, InSession
<1> QED BY <1>1, <1>2, InPlace DEF Apart, Greeting

LEMMA StopKeeps ==
  ASSUME SocketInv, runCancel \/ Stop
  PROVE  SocketInv'
<1>1. /\ loop' = loop /\ cur' = cur /\ pump' = pump
      /\ acked' = acked /\ handled' = handled /\ inHand' = inHand
  BY DEF runCancel, Stop, session, outcome
<1>2. /\ stop' = "returned" => loop = "done"
      /\ sock' = sock \/ sock' = [sock EXCEPT ![cur] = "closed"]
  BY DEF runCancel, Stop, Drop, network
<1>3. Work'
  BY <1>1, <1>2 DEF SocketInv, Work, decodeIncoming
<1>4. CASE sock' = sock
  BY <1>1, <1>3, <1>4, LineStays DEF SocketInv
<1>5. CASE sock' = [sock EXCEPT ![cur] = "closed"]
  <2>1. Line /\ cur \in Opened \cup {0}
    BY DEF SocketInv, Line
  <2>2. Line'
    BY <1>1, <1>5, <2>1, DropEnds, LineRule
  <2> QED BY <1>3, <2>2 DEF SocketInv
<1> QED BY <1>2, <1>4, <1>5

LEMMA SlackKeeps ==
  ASSUME SocketInv, SlackPongs \/ SlackFails \/ \E e \in DOMAIN Events : SlackSends(e)
  PROVE  SocketInv'
<1>1. /\ loop' = loop /\ cur' = cur /\ pump' = pump
      /\ acked' = acked /\ handled' = handled /\ inHand' = inHand /\ stop' = stop
  BY DEF SlackPongs, SlackFails, SlackSends, session, outcome
<1>2. sock' = sock \/ \E c \in Connected : \E to \in {"mute", "closed"} :
                        sock' = [sock EXCEPT ![c] = to]
  BY DEF SlackPongs, SlackFails, SlackSends, Drop
<1>3. Work'
  BY <1>1 DEF SocketInv, Work, decodeIncoming
<1>4. CASE sock' = sock
  BY <1>1, <1>3, <1>4, LineStays DEF SocketInv
<1>5. ASSUME NEW c \in Connected, NEW to \in {"mute", "closed"},
             sock' = [sock EXCEPT ![c] = to]
      PROVE  SocketInv'
  <2>1. c \in Opened /\ c \in Alive
    BY DEF Connected, Opened, Alive
  <2>2. Line'
    BY <1>1, <1>5, <2>1, DropEnds, LineRule DEF SocketInv
  <2> QED BY <1>3, <2>2 DEF SocketInv
<1> QED BY <1>2, <1>4, <1>5

LEMMA SocketStays ==
  ASSUME SocketInv, UNCHANGED socket
  PROVE  SocketInv'
<1>1. /\ loop' = loop /\ cur' = cur /\ sock' = sock /\ pump' = pump /\ stop' = stop
      /\ acked' = acked /\ handled' = handled /\ inHand' = inHand
  BY DEF socket
<1>2. Work'
  BY <1>1 DEF SocketInv, Work, decodeIncoming
<1>3. Line'
  BY <1>1, LineStays DEF SocketInv
<1> QED BY <1>2, <1>3 DEF SocketInv

LEMMA SocketStep == SocketInv /\ [Next]_vars => SocketInv'
<1> SUFFICES ASSUME SocketInv, [Next]_vars PROVE SocketInv'
  OBVIOUS
<1>1. CASE LoopStep
  BY <1>1, OpenKeeps, DialKeeps, HelloKeeps, SwapKeeps, SessionKeeps, LeaveKeeps, ReadKeeps,
     DrainKeeps, AckKeeps, DispatchSockKeeps, TearDownKeeps, BetweenKeeps DEF LoopStep
<1>2. CASE Subscribe \/ PumpStep \/ runCancel \/ Stop
  BY <1>2, BetweenKeeps, SessionKeeps, StopKeeps DEF PumpStep
<1>3. CASE SlackPongs \/ SlackFails \/ \E e \in DOMAIN Events : SlackSends(e)
  BY <1>3, SlackKeeps
<1>4. CASE CallStep \/ (Tick /\ UNCHANGED socket) \/ SubscribeCancelled \/ UNCHANGED vars
  <2>1. UNCHANGED socket
    BY <1>4 DEF CallStep, SubscribeCancelled, vars
  <2> QED BY <2>1, SocketStays
<1> QED BY <1>1, <1>2, <1>3, <1>4 DEF Next

LEMMA SocketInit == Init => SocketInv
<1> SUFFICES ASSUME Init PROVE SocketInv
  OBVIOUS
<1>1. /\ loop = "none" /\ cur = 0 /\ sock = [c \in Conns |-> "none"] /\ pump = "off"
      /\ acked = {} /\ stop = "no"
  BY DEF Init
<1>2. Opened = {} /\ Alive = {}
  BY <1>1 DEF Opened, Alive
<1>3. \E k \in 0..(MaxFaults + 2) : Opened = 1..k
  <2>1. 0 \in 0..(MaxFaults + 2) /\ 1..0 = {}
    BY FaultsAssumption
  <2> QED BY <1>2, <2>1
<1>4. Line
  BY <1>1, <1>2, <1>3 DEF Line
<1> QED BY <1>1, <1>4 DEF SocketInv, Work

(* subscribe.go, subscribe_reconnect.go: through any number of reconnects,    *)
(* failures and cancellations a subscription has at most one connection that *)
(* Slack may still think alive, and when Stop has returned both goroutines   *)
(* are over and every message that was acknowledged was handled.              *)
THEOREM SocketOwned == Spec => []SocketIsOwned
<1>1. Spec => []SocketInv
  BY SocketInit, SocketStep, PTL DEF Spec
<1>2. SocketInv => SocketIsOwned
  <2> SUFFICES ASSUME SocketInv PROVE SocketIsOwned
    OBVIOUS
  <2>1. AtMostOneSocket
    <3>1. Alive \in SUBSET {Holder}
      BY DEF SocketInv, Line
    <3>2. IsFiniteSet({Holder}) /\ Cardinality({Holder}) = 1
      BY FS_Singleton
    <3> HIDE DEF Holder
    <3>3. Cardinality(Alive) <= 1
      BY <3>1, <3>2, FS_Subset
    <3> QED BY <3>3 DEF AtMostOneSocket, Alive
  <2>2. StopIsClean
    BY DEF SocketInv, Work, StopIsClean, InSession
  <2> QED BY <2>1, <2>2 DEF SocketIsOwned
<1> QED BY <1>1, <1>2, PTL
=============================================================================
