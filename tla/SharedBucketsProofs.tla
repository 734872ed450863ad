------------------------ MODULE SharedBucketsProofs ------------------------
(***************************************************************************)
(* The buckets that every CPU updates without a lock, for every number of  *)
(* CPUs, limit, word size and interleaving: the packet bucket, a plain     *)
(* read-modify-write, never counts more than was put into it; as long as   *)
(* no two calls overlap, either bucket admits no more than its burst and   *)
(* rate allow, and the flow bucket takes the steps of the atomic one.      *)
(***************************************************************************)
EXTENDS SharedBuckets, SumTheorems

\* what was ever put into the bucket
Paid == GLOBAL_PPS_LIMIT + minted

Pcs == {"idle", "delta", "refill", "add", "clamp", "stamp", "copy", "copied", "test",
        "spend", "save", "saved", "passed"}

Calls == [pc : Pcs, now : Nat, refill : Nat, reg : Nat, old : Int]

\* A CPU between two accesses holds a count that was paid for, or will be
\* once it stores its refill; it decrements only a count it saw positive.
RegistersPaid ==
    \A c \in Cpus :
        /\ call[c].pc \in {"spend", "copied", "saved"} => call[c].reg <= Paid
        /\ call[c].pc = "spend" => call[c].reg >= 1
        /\ call[c].pc = "add" => call[c].reg <= Paid + call[c].refill

PpsTypes ==
    /\ clock \in Nat
    /\ minted \in Nat
    /\ pps \in [tokens : Nat, last : Int]
    /\ call \in [Cpus -> Calls]

Inv == PpsTypes /\ RegistersPaid /\ pps.tokens <= Paid

\* __u64 arithmetic never gives more than the integers do.
LEMMA WrapAtMost ==
    ASSUME NEW n \in Int
    PROVE  Pps!PpsWrap(n) \in Nat /\ (n >= 0 => Pps!PpsWrap(n) <= n)
  BY RatesAssumption DEF Pps!PpsWrap

\* Multiplication by a natural number distributes and is monotone.
LEMMA ScaleUp ==
    ASSUME NEW k \in Nat, NEW x \in Int, NEW y \in Int
    PROVE  /\ k * x \in Int
           /\ k * (x + y) = k * x + k * y
           /\ x <= y => k * x <= k * y
  <1>1. k * x \in Int /\ k * (x + y) = k * x + k * y
    OBVIOUS
  <1>2. ASSUME x <= y PROVE k * x <= k * y
    <2>1. PICK d \in Nat : y = x + d
      BY <1>2
    <2>2. k * y = k * x + k * d /\ k * d \in Nat /\ k * x \in Int
      BY <2>1
    <2> QED
      BY <2>2
  <1> QED
    BY <1>1, <1>2

\* A quotient grows with its dividend.
LEMMA DivMonotone ==
    ASSUME NEW m \in Nat, NEW n \in Nat, m <= n, NEW d \in Nat \ {0}
    PROVE  /\ m \div d \in Nat
           /\ n \div d \in Nat
           /\ d * (m \div d) <= m
           /\ m \div d <= n \div d
  <1>1. PICK q \in Nat : q = m \div d /\ d * q <= m
    OBVIOUS
  <1>2. PICK p \in Nat : p = n \div d /\ n < d * p + d
    OBVIOUS
  <1>3. ASSUME q > p PROVE FALSE
    <2>1. d * (p + 1) <= d * q /\ d * (p + 1) = d * p + d * 1
      BY <1>3, ScaleUp
    <2>2. d * q \in Int /\ d * p \in Int /\ d * 1 = d
      OBVIOUS
    <2> QED
      BY <1>1, <1>2, <2>1, <2>2
  <1> QED
    BY <1>1, <1>2, <1>3

\* A refill is worth at most the time it stands for, and a small part of a
\* word, even when the product delta * rate wraps (policy.h:161, 187).
LEMMA RefillBound ==
    ASSUME NEW delta \in Nat, NEW rate \in Nat
    PROVE  /\ Refill(delta, rate) \in Nat
           /\ NS_PER_SEC * Refill(delta, rate) <= rate * delta
           /\ Refill(delta, rate) <= U64 \div NS_PER_SEC
  <1> DEFINE x == delta * rate
             w == x % U64
  <1>1. x \in Nat /\ x = rate * delta
    OBVIOUS
  <1> HIDE DEF x
  <1>2. w \in Nat /\ w <= x /\ w <= U64
    BY <1>1, RatesAssumption
  <1>3. Refill(delta, rate) = w \div NS_PER_SEC
    BY DEF Refill, x
  <1> HIDE DEF w
  <1>4. w \div NS_PER_SEC \in Nat /\ NS_PER_SEC * (w \div NS_PER_SEC) <= w /\ w \div NS_PER_SEC <= U64 \div NS_PER_SEC
    BY <1>2, DivMonotone, TimeAssumption, RatesAssumption
  <1>5. NS_PER_SEC * (w \div NS_PER_SEC) \in Int
    BY <1>4, TimeAssumption
  <1> QED
    BY <1>1, <1>2, <1>3, <1>4, <1>5

LEMMA IdleTyped ==
    Pps!IdleCall \in Calls /\ Pps!IdleCall.pc = "idle"
  BY DEF Pps!IdleCall, Calls, Pcs

LEMMA InvInit == SharedInit => Inv
  <1> SUFFICES ASSUME SharedInit PROVE Inv
    OBVIOUS
  <1>1. clock \in Nat /\ minted \in Nat /\ pps \in [tokens : Nat, last : Int] /\ pps.tokens <= Paid
    BY RatesAssumption DEF SharedInit, Init, Pps!PpsInit, Paid
  <1>2. call = [c \in Cpus |-> Pps!IdleCall]
    BY DEF SharedInit, Pps!PpsInit
  <1> QED
    BY <1>1, <1>2, IdleTyped DEF Inv, PpsTypes, RegistersPaid

\* A step of consume_global_pps: what the CPU holds and what it stores stays
\* paid for.
LEMMA ChargeStep ==
    ASSUME Inv, NEW c \in Cpus, Pps!ConsumePps(c), UNCHANGED clock
    PROVE  Inv'
  <1>0. /\ Paid \in Nat /\ GLOBAL_PPS_LIMIT \in Nat /\ clock' = clock /\ PpsTypes
        /\ RegistersPaid /\ pps.tokens <= Paid
    BY RatesAssumption DEF Inv, Paid, PpsTypes
  <1>1. CASE Pps!SampleTime(c)
    BY <1>0, <1>1, IdleTyped DEF Pps!SampleTime, Inv, PpsTypes, RegistersPaid, Paid, Calls, Pcs
  <1>2. CASE Pps!LoadLastTs(c)
    <2> DEFINE f == Refill(Pps!PpsWrap(call[c].now - pps.last), GLOBAL_PPS_LIMIT)
    <2>1. call[c].now - pps.last \in Int
      BY <1>0 DEF PpsTypes, Calls
    <2>2. f \in Nat
      BY <2>1, WrapAtMost, RefillBound, RatesAssumption
    <2>3. /\ call' = [call EXCEPT ![c] = [@ EXCEPT !.refill = f,
                                          !.pc = IF f > 0 THEN "refill" ELSE "test"]]
          /\ UNCHANGED <<pps, minted>>
      BY <1>2 DEF Pps!LoadLastTs, Pps!Refill, Refill
    <2> HIDE DEF f
    <2>4. PpsTypes'
      <3>1. call \in [Cpus -> Calls] /\ call[c] \in Calls
        BY <1>0 DEF PpsTypes
      <3>2. [call[c] EXCEPT !.refill = f, !.pc = IF f > 0 THEN "refill" ELSE "test"] \in Calls
        BY <2>2, <3>1 DEF Calls, Pcs
      <3>3. call' \in [Cpus -> Calls]
        BY <2>3, <3>1, <3>2
      <3> QED
        BY <1>0, <2>3, <3>3 DEF PpsTypes
    <2>5. RegistersPaid'
      BY <1>0, <2>2, <2>3 DEF PpsTypes, RegistersPaid, Paid, Calls, Pcs
    <2> QED
      BY <1>0, <2>3, <2>4, <2>5 DEF Inv, Paid
  <1>3. CASE Pps!LoadTokens(c)
    <2> DEFINE n == Pps!PpsWrap(pps.tokens + call[c].refill)
    <2>1. pps.tokens + call[c].refill \in Nat
      BY <1>0 DEF PpsTypes, Calls
    <2>2. n \in Nat /\ n <= pps.tokens + call[c].refill
      BY <2>1, WrapAtMost
    <2>3. /\ call' = [call EXCEPT ![c] = [@ EXCEPT !.reg = n, !.pc = "add"]]
          /\ UNCHANGED <<pps, minted>>
      BY <1>3 DEF Pps!LoadTokens
    <2>4. n <= Paid + call[c].refill
      <3> HIDE DEF n
      <3> QED
        BY <1>0, <2>2 DEF PpsTypes, Calls
    <2> HIDE DEF n
    <2>5. PpsTypes'
      <3>1. call \in [Cpus -> Calls] /\ call[c] \in Calls
        BY <1>0 DEF PpsTypes
      <3>2. [call[c] EXCEPT !.reg = n, !.pc = "add"] \in Calls
        BY <2>2, <3>1 DEF Calls, Pcs
      <3>3. call' \in [Cpus -> Calls]
        BY <2>3, <3>1, <3>2
      <3> QED
        BY <1>0, <2>3, <3>3 DEF PpsTypes
    <2>6. RegistersPaid'
      BY <1>0, <2>2, <2>3, <2>4 DEF PpsTypes, RegistersPaid, Paid, Calls, Pcs
    <2> QED
      BY <1>0, <2>3, <2>5, <2>6 DEF Inv, Paid
  <1>4. CASE Pps!StoreRefilled(c)
    BY <1>0, <1>4 DEF Pps!StoreRefilled, Pps!Step, Pps!At, Inv, PpsTypes, RegistersPaid, Paid, Calls, Pcs
  <1>5. CASE Pps!StoreClamped(c)
    BY <1>0, <1>5 DEF Pps!StoreClamped, Pps!Step, Inv, PpsTypes, RegistersPaid, Paid, Calls, Pcs
  <1>6. CASE Pps!StoreLastTs(c)
    BY <1>0, <1>6 DEF Pps!StoreLastTs, Pps!Step, Inv, PpsTypes, RegistersPaid, Paid, Calls, Pcs
  <1>7. ASSUME NEW from, NEW to \in {"copied", "saved"}, Pps!CopyRead(c, from, to) PROVE Inv'
    <2> DEFINE v == [call[c] EXCEPT !.reg = pps.tokens, !.old = pps.last, !.pc = to]
    <2>1. call' = [call EXCEPT ![c] = v] /\ UNCHANGED <<pps, minted>>
      BY <1>7 DEF Pps!CopyRead
    <2>2. call \in [Cpus -> Calls] /\ v \in Calls /\ v.pc = to /\ v.reg = pps.tokens
      BY <1>0 DEF PpsTypes, Calls, Pcs
    <2> HIDE DEF v
    <2>3. PpsTypes'
      BY <1>0, <2>1, <2>2 DEF PpsTypes
    <2>4. RegistersPaid'
      BY <1>0, <2>1, <2>2 DEF RegistersPaid, Paid
    <2> QED
      BY <1>0, <2>1, <2>3, <2>4 DEF Inv, Paid
  <1>8. CASE Pps!RefillCopied(c)
    BY <1>0, <1>8 DEF Pps!RefillCopied, Pps!Step, Pps!At, Inv, PpsTypes, RegistersPaid, Paid, Calls, Pcs
  <1>9. CASE Pps!TestTokens(c)
    <2>1. CASE pps.tokens < 1
      BY <1>0, <1>9, <2>1, IdleTyped DEF Pps!TestTokens, Inv, PpsTypes, RegistersPaid, Paid
    <2>2. CASE ~(pps.tokens < 1)
      <3>1. /\ call' = [call EXCEPT ![c] = [@ EXCEPT !.reg = pps.tokens, !.pc = "spend"]]
            /\ UNCHANGED <<pps, minted>>
        BY <1>9, <2>2 DEF Pps!TestTokens
      <3>2. pps.tokens >= 1
        BY <1>0, <2>2 DEF PpsTypes
      <3> QED
        BY <1>0, <3>1, <3>2 DEF Inv, PpsTypes, RegistersPaid, Paid, Calls, Pcs
    <2> QED
      BY <2>1, <2>2
  <1>10. CASE Pps!StoreDecrement(c)
    <2>1. call[c].reg - 1 \in Nat
      BY <1>0, <1>10 DEF Pps!StoreDecrement, Pps!At, PpsTypes, RegistersPaid, Calls, Pcs
    <2>2. Pps!PpsWrap(call[c].reg - 1) \in Nat /\ Pps!PpsWrap(call[c].reg - 1) <= call[c].reg - 1
      BY <2>1, WrapAtMost
    <2> QED
      BY <1>0, <1>10, <2>1, <2>2
         DEF Pps!StoreDecrement, Pps!Step, Pps!At, Inv, PpsTypes, RegistersPaid, Paid, Calls, Pcs
  <1>11. CASE Pps!SpendCopied(c)
    BY <1>0, <1>11, IdleTyped
       DEF Pps!SpendCopied, Pps!At, Inv, PpsTypes, RegistersPaid, Paid, Calls, Pcs
  <1> QED
    BY <1>1, <1>2, <1>3, <1>4, <1>5, <1>6, <1>7, <1>8, <1>9, <1>10, <1>11 DEF Pps!ConsumePps

\* Every other step leaves the packet bucket alone or resets a CPU's call.
LEMMA InvNext == Inv /\ scenario \in Scenarios /\ [SharedNext]_sharedVars => Inv'
  <1> SUFFICES ASSUME Inv, scenario \in Scenarios, [SharedNext]_sharedVars PROVE Inv'
    OBVIOUS
  <1> USE DEF vars, ppsVars
  <1>0. scenario.cpus \subseteq Cpus
    BY ScenarioAssumption
  <1>1. ASSUME NEW c \in Cpus, Charge(c) PROVE Inv'
    BY <1>1, ChargeStep DEF Charge
  <1>2. ASSUME NEW c \in Cpus, Pps!Return(c), UNCHANGED clock PROVE Inv'
    BY <1>2, IdleTyped DEF Pps!Return, Inv, PpsTypes, RegistersPaid, Paid
  <1>3. ASSUME clock' \in Nat, UNCHANGED ppsVars PROVE Inv'
    BY <1>3 DEF Inv, PpsTypes, RegistersPaid, Paid
  <1>4. clock \in Nat
    BY DEF Inv, PpsTypes
  <1>5. ASSUME NEW c \in Cpus, Leave(c) PROVE Inv'
    BY <1>2, <1>5 DEF Leave
  <1>6. ASSUME NEW c \in Cpus, NEW len \in Lens, Enter(c, len) PROVE Inv'
    BY <1>2, <1>6 DEF Enter, SampleClock
  <1>7. ASSUME NEW c \in Cpus, ConsumeFlow(c) PROVE Inv'
    BY <1>3, <1>4, <1>7 DEF ConsumeFlow, LoadRefill, SwapLastRefill, MintTokens, CheckBurst,
                            ClampTokens, TakeTokens, GiveBack
  <1>8. CASE SharedTick
    BY <1>3, <1>4, <1>8 DEF SharedTick, Tick
  <1>9. CASE UNCHANGED sharedVars
    BY <1>3, <1>4, <1>9 DEF sharedVars
  <1> QED
    BY <1>0, <1>1, <1>5, <1>6, <1>7, <1>8, <1>9 DEF SharedNext, SharedDone

\* the scenario is chosen once
InScenario == scenario \in Scenarios

LEMMA ScenarioNext == InScenario /\ [SharedNext]_sharedVars => InScenario'
  BY DEF InScenario, SharedNext, Charge, Leave, Enter, ConsumeFlow, SharedTick, SharedDone, sharedVars

----------------------------------------------------------------------------
(***************************************************************************)
(* One CPU at a time.  Both buckets keep an account: what was let through  *)
(* plus what is left is covered by the initial allowance and the time that *)
(* was turned into tokens.  Between two accesses the account is off by     *)
(* what the call is about to store.                                        *)
(***************************************************************************)
Tasks == [pc : {"idle", "load", "swap", "mint", "check", "clamp", "take", "giveback"},
          len : Nat, now : Nat, last : Nat, refill : Nat, curr : Nat]

FlowTypes ==
    /\ clock \in 1..MaxClock
    /\ passed \in Nat
    /\ st \in Bucket
    /\ settled \in Bucket
    /\ task \in [Cpus -> Tasks]

\* The bucket as the last completed call left it.
SettledAccount ==
    /\ settled.tokens <= FLOW_BURST
    /\ settled.last \in 1..clock
    /\ NS_PER_SEC * (passed + settled.tokens) <= NS_PER_SEC * FLOW_BURST + FLOW_RATE * (settled.last - 1)

\* What the call on CPU c earns, and the bucket it spends from.
Earned(c) == Refill(task[c].now - settled.last, FLOW_RATE)
Due(c)    == Refilled(settled, task[c].now, FLOW_RATE, FLOW_BURST)

\* How far the bucket is from what the last completed call left.
Progress(c) ==
    /\ task[c].pc # "idle" => task[c].len \in Lens /\ task[c].now \in settled.last..clock
    /\ task[c].pc \in {"idle", "load", "swap"} => st = settled
    /\ task[c].pc \in {"swap", "mint", "check", "clamp"} => task[c].refill = Earned(c) /\ task[c].refill > 0
    /\ task[c].pc = "swap" => task[c].last = settled.last
    /\ task[c].pc \in {"mint", "check", "clamp"} => st.last = task[c].now
    /\ task[c].pc = "mint" => st.tokens = settled.tokens
    /\ task[c].pc \in {"check", "clamp"} => st.tokens = settled.tokens + task[c].refill
    /\ task[c].pc = "clamp" => task[c].curr = st.tokens /\ st.tokens > FLOW_BURST
    /\ task[c].pc = "take" => st = Due(c)
    /\ task[c].pc = "giveback" => /\ st = [tokens |-> Wrap(Due(c).tokens - task[c].len), last |-> Due(c).last]
                                  /\ Due(c).tokens < task[c].len

FlowInv == FlowTypes /\ (Serial => SettledAccount /\ \A c \in scenario.cpus : Progress(c))

\* A packet bucket with t tokens, filled up to time l, after n packets.
PpsAccount(n, t, l) == NS_PER_SEC * (n + t) <= NS_PER_SEC * GLOBAL_PPS_LIMIT + GLOBAL_PPS_LIMIT * l

\* What the call on CPU c has stored of its update, and what it holds of it.
PpsProgress(c) ==
    /\ call[c].pc \in {"delta", "refill", "add", "clamp", "stamp"} => call[c].now \in pps.last..clock
    /\ call[c].pc \in {"refill", "add"} =>
           NS_PER_SEC * call[c].refill <= GLOBAL_PPS_LIMIT * (call[c].now - pps.last)
    /\ call[c].pc = "add" => call[c].reg <= pps.tokens + call[c].refill
    /\ call[c].pc \in {"clamp", "stamp"} => PpsAccount(admitted, pps.tokens, call[c].now)
    /\ call[c].pc = "clamp" => pps.tokens > GLOBAL_PPS_LIMIT
    /\ call[c].pc \in {"copied", "spend", "saved"} => call[c].reg = pps.tokens
    /\ call[c].pc \in {"copied", "saved"} => call[c].old = pps.last
    /\ call[c].pc \in {"save", "saved"} => PpsAccount(admitted + 1, pps.tokens, pps.last)
    /\ call[c].pc \notin {"clamp", "stamp", "save", "saved"} => PpsAccount(admitted, pps.tokens, pps.last)

PpsInv ==
    /\ admitted \in Nat
    /\ Serial => /\ pps.last \in 0..clock
                 /\ NS_PER_SEC * admitted <= NS_PER_SEC * GLOBAL_PPS_LIMIT + GLOBAL_PPS_LIMIT * clock
                 /\ \A c \in scenario.cpus : PpsProgress(c)

\* __u64 arithmetic is exact within the word, and a difference below zero
\* wraps once.
LEMMA WrapExact ==
    ASSUME NEW n \in Int, -U64 < n, n < U64
    PROVE  /\ n >= 0 => Wrap(n) = n
           /\ n < 0 => Wrap(n) = n + U64
  <1> DEFINE m == n % U64
             q == n \div U64
  <1>1. U64 \in Nat \ {0}
    BY RatesAssumption
  <1>2. m \in 0..(U64 - 1) /\ q \in Int
    BY <1>1
  <1>3. n = U64 * q + m
    BY <1>1
  <1>4. Wrap(n) = m
    BY DEF Wrap
  <1> HIDE DEF m, q
  <1>5. U64 * q \in Int /\ U64 * q < U64 /\ U64 * q > -(2 * U64)
    BY <1>1, <1>2, <1>3
  <1>6. q < 1
    <2> SUFFICES ASSUME 1 <= q PROVE FALSE
      BY <1>2
    <2>1. U64 * 1 <= U64 * q /\ U64 * 1 = U64
      BY <1>1, <1>2, ScaleUp
    <2> QED
      BY <1>1, <1>5, <2>1
  <1>7. q > -2
    <2> SUFFICES ASSUME q <= -2 PROVE FALSE
      BY <1>2
    <2>1. U64 * q <= U64 * (-2) /\ U64 * (-2) = -(2 * U64)
      BY <1>1, <1>2, ScaleUp
    <2> QED
      BY <1>1, <1>5, <2>1
  <1>8. q = 0 \/ q = -1
    BY <1>2, <1>6, <1>7
  <1>9. CASE q = 0
    BY <1>1, <1>2, <1>3, <1>4, <1>9
  <1>10. CASE q = -1
    BY <1>1, <1>2, <1>3, <1>4, <1>10
  <1> QED
    BY <1>8, <1>9, <1>10

\* The tokens a refill adds, stage by stage: what a call has in hand.
LEMMA EarnedBounds ==
    ASSUME NEW b \in Bucket, NEW now \in Nat, b.last <= now, b.tokens <= FLOW_BURST,
           NEW r, r = Refill(now - b.last, FLOW_RATE),
           NEW d, d = Refilled(b, now, FLOW_RATE, FLOW_BURST)
    PROVE  /\ r \in Nat
           /\ b.tokens + r < U64
           /\ NS_PER_SEC * r <= FLOW_RATE * (now - b.last)
           /\ d \in Bucket
           /\ d.tokens <= FLOW_BURST
           /\ d.tokens <= b.tokens + r
           /\ d.last \in b.last..now
           /\ r > 0 => d = [tokens |-> AtMost(b.tokens + r, FLOW_BURST), last |-> now]
           /\ ~(r > 0) => d = b
  <1>1. b.tokens \in Nat /\ b.last \in Nat /\ now - b.last \in Nat
    BY DEF Bucket
  <1>2. r \in Nat /\ NS_PER_SEC * r <= FLOW_RATE * (now - b.last) /\ r <= U64 \div NS_PER_SEC
    BY <1>1, RefillBound, RatesAssumption
  <1>3. FLOW_BURST \in Nat /\ U64 \in Nat /\ U64 \div NS_PER_SEC \in Nat /\ FLOW_BURST + U64 \div NS_PER_SEC < U64
    BY RatesAssumption, TimeAssumption, WordAssumption, DivMonotone
  <1>4. b.tokens + r < U64
    BY <1>1, <1>2, <1>3
  <1>5. d = IF r > 0 THEN [tokens |-> AtMost(b.tokens + r, FLOW_BURST), last |-> now] ELSE b
    BY DEF Refilled
  <1>6. AtMost(b.tokens + r, FLOW_BURST) \in Nat /\ AtMost(b.tokens + r, FLOW_BURST) <= FLOW_BURST
        /\ AtMost(b.tokens + r, FLOW_BURST) <= b.tokens + r
    BY <1>1, <1>2, <1>3 DEF AtMost
  <1>7. CASE r > 0
    BY <1>1, <1>2, <1>4, <1>5, <1>6, <1>7 DEF Bucket
  <1>8. CASE ~(r > 0)
    BY <1>1, <1>2, <1>4, <1>5, <1>8 DEF Bucket
  <1> QED
    BY <1>7, <1>8

\* A refill keeps the account of the flow balanced.
LEMMA RefilledAccount ==
    ASSUME NEW p \in Nat, NEW t \in Nat, NEW t2 \in Nat, NEW r \in Nat, t2 <= t + r,
           NEW l \in Nat, NEW now \in Nat,
           NS_PER_SEC * r <= FLOW_RATE * (now - l),
           NS_PER_SEC * (p + t) <= NS_PER_SEC * FLOW_BURST + FLOW_RATE * (l - 1)
    PROVE  NS_PER_SEC * (p + t2) <= NS_PER_SEC * FLOW_BURST + FLOW_RATE * (now - 1)
  <1>1. NS_PER_SEC * (p + t2) <= NS_PER_SEC * ((p + t) + r)
        /\ NS_PER_SEC * ((p + t) + r) = NS_PER_SEC * (p + t) + NS_PER_SEC * r
    BY ScaleUp, TimeAssumption
  <1>2. FLOW_RATE * (now - 1) = FLOW_RATE * (l - 1) + FLOW_RATE * (now - l)
    BY RatesAssumption
  <1>3. /\ NS_PER_SEC * (p + t2) \in Int /\ NS_PER_SEC * (p + t) \in Int /\ NS_PER_SEC * r \in Int
        /\ FLOW_RATE * (l - 1) \in Int /\ FLOW_RATE * (now - l) \in Int /\ NS_PER_SEC * FLOW_BURST \in Int
        /\ NS_PER_SEC * ((p + t) + r) \in Int /\ FLOW_RATE * (now - 1) \in Int
    BY TimeAssumption, RatesAssumption
  <1> QED
    BY <1>1, <1>2, <1>3

LEMMA IdleTaskTyped ==
    IdleTask \in Tasks /\ IdleTask.pc = "idle"
  BY DEF IdleTask, Tasks

\* The fields of the calls and of the bucket keep their types, one CPU or many.
LEMMA FlowTyped ==
    ASSUME FlowTypes, NEW c \in Cpus, ConsumeFlow(c)
    PROVE  FlowTypes'
  <1>1. /\ task[c] \in Tasks /\ st.tokens \in Nat /\ st.last \in Nat /\ st \in Bucket
        /\ task[c].now \in Nat /\ task[c].len \in Nat /\ task[c].refill \in Nat
    BY DEF FlowTypes, Bucket, Tasks
  <1>2. FLOW_BURST \in Nat /\ FLOW_RATE \in Nat
    BY RatesAssumption
  <1>3. \A n \in Int : Wrap(n) \in Nat
    BY RatesAssumption DEF Wrap
  <1>4. CASE LoadRefill(c)
    <2> DEFINE r == Refill(Wrap(task[c].now - st.last), FLOW_RATE)
    <2>1. r \in Nat
      <3>1. Wrap(task[c].now - st.last) \in Nat
        BY <1>1, <1>3
      <3> QED
        BY <1>2, <3>1, RefillBound
    <2>2. /\ task' = [task EXCEPT ![c] = [@ EXCEPT !.last = st.last, !.refill = r,
                                                   !.pc = IF r > 0 THEN "swap" ELSE "take"]]
          /\ UNCHANGED <<clock, st, passed, settled>>
      BY <1>4 DEF LoadRefill
    <2> HIDE DEF r
    <2> QED
      BY <1>1, <2>1, <2>2 DEF FlowTypes, Tasks
  <1>5. CASE SwapLastRefill(c)
    BY <1>1, <1>5 DEF SwapLastRefill, Goto, FlowTypes, Tasks, Bucket
  <1>6. CASE MintTokens(c)
    <2>1. Wrap(st.tokens + task[c].refill) \in Nat
      BY <1>1, <1>3
    <2> QED
      BY <1>1, <1>6, <2>1 DEF MintTokens, Goto, FlowTypes, Tasks, Bucket
  <1>7. CASE CheckBurst(c)
    BY <1>1, <1>7 DEF CheckBurst, FlowTypes, Tasks
  <1>8. CASE ClampTokens(c)
    BY <1>1, <1>2, <1>8 DEF ClampTokens, Goto, FlowTypes, Tasks, Bucket
  <1>9. CASE TakeTokens(c)
    <2>1. Wrap(st.tokens - task[c].len) \in Nat
      BY <1>1, <1>3
    <2>2. st' \in Bucket /\ clock' = clock
      BY <1>1, <1>9, <2>1 DEF TakeTokens, Bucket
    <2>3. CASE st.tokens >= task[c].len
      BY <1>1, <1>9, <2>2, <2>3, IdleTaskTyped DEF TakeTokens, FlowTypes
    <2>4. CASE ~(st.tokens >= task[c].len)
      BY <1>1, <1>9, <2>2, <2>4 DEF TakeTokens, Goto, FlowTypes, Tasks
    <2> QED
      BY <2>3, <2>4
  <1>10. CASE GiveBack(c)
    <2>1. Wrap(st.tokens + task[c].len) \in Nat
      BY <1>1, <1>3
    <2>2. st' \in Bucket
      BY <1>1, <1>10, <2>1 DEF GiveBack, Bucket
    <2> QED
      BY <1>1, <1>10, <2>2, IdleTaskTyped DEF GiveBack, FlowTypes
  <1> QED
    BY <1>4, <1>5, <1>6, <1>7, <1>8, <1>9, <1>10 DEF ConsumeFlow

\* One CPU: the unfinished steps of a call leave what the last one settled,
\* and go from stage to stage as a call without rivals does.
LEMMA FlowAdvances ==
    ASSUME FlowTypes, FlowTypes', SettledAccount, NEW c \in Cpus, Progress(c),
           \/ LoadRefill(c) \/ SwapLastRefill(c) \/ MintTokens(c) \/ CheckBurst(c) \/ ClampTokens(c)
           \/ TakeTokens(c) /\ st.tokens < task[c].len
    PROVE  SettledAccount' /\ Progress(c)' /\ UNCHANGED <<clock, settled, passed>>
  <1> DEFINE e == Earned(c)
             d == Due(c)
             t == task[c]
  <1>1. /\ t \in Tasks /\ t.pc # "idle"
        /\ t.now \in settled.last..clock /\ t.len \in Lens
        /\ settled \in Bucket /\ settled.tokens <= FLOW_BURST /\ st \in Bucket
    BY DEF FlowTypes, LoadRefill, SwapLastRefill, MintTokens, CheckBurst, ClampTokens, TakeTokens,
           Progress, SettledAccount
  <1>2. /\ settled.tokens \in Nat /\ settled.last \in Nat /\ st.tokens \in Nat /\ st.last \in Nat
        /\ t.now \in Nat /\ t.len \in Nat /\ t.refill \in Nat /\ clock \in Nat /\ clock < U64
    BY <1>1, BoundAssumption, RatesAssumption DEF FlowTypes, Bucket, Tasks
  <1>3. /\ e \in Nat /\ settled.tokens + e < U64
        /\ d \in Bucket /\ d.tokens <= FLOW_BURST
        /\ e > 0 => d = [tokens |-> AtMost(settled.tokens + e, FLOW_BURST), last |-> t.now]
        /\ ~(e > 0) => d = settled
    BY <1>1, <1>2, EarnedBounds DEF Earned, Due
  <1>4. UNCHANGED <<clock, settled, passed>>
    BY <1>2 DEF LoadRefill, SwapLastRefill, MintTokens, CheckBurst, ClampTokens, TakeTokens
  <1>5. SettledAccount'
    BY <1>4 DEF SettledAccount
  <1>6. ASSUME task'[c].now = t.now PROVE Earned(c)' = e /\ Due(c)' = d
    BY <1>4, <1>6 DEF Earned, Due
  <1>7. task \in [Cpus -> Tasks]
    BY DEF FlowTypes
  <1>8. CASE LoadRefill(c)
    <2>1. st = settled /\ UNCHANGED st
      BY <1>8 DEF LoadRefill, Progress
    <2>2. Wrap(t.now - st.last) = t.now - settled.last
      BY <1>1, <1>2, <2>1, WrapExact, RatesAssumption
    <2>3. task' = [task EXCEPT ![c] = [@ EXCEPT !.last = st.last, !.refill = e,
                                                !.pc = IF e > 0 THEN "swap" ELSE "take"]]
      BY <1>8, <2>2 DEF LoadRefill, Earned
    <2> HIDE DEF e, d
    <2>4. task'[c] = [t EXCEPT !.last = st.last, !.refill = e, !.pc = IF e > 0 THEN "swap" ELSE "take"]
      BY <1>7, <2>3
    <2>5. /\ task'[c].now = t.now /\ task'[c].len = t.len /\ task'[c].last = st.last /\ task'[c].refill = e
          /\ task'[c].pc = IF e > 0 THEN "swap" ELSE "take"
      BY <1>1, <2>4 DEF Tasks
    <2> QED
      BY <1>1, <1>3, <1>4, <1>5, <1>6, <2>1, <2>5 DEF Progress
  <1>9. CASE SwapLastRefill(c)
    <2> HIDE DEF e, d
    <2>1. st = settled /\ t.last = st.last /\ t.refill = Earned(c) /\ t.refill > 0 /\ t.pc = "swap"
      BY <1>9 DEF SwapLastRefill, Progress
    <2>2. st' = [st EXCEPT !.last = t.now] /\ task' = [task EXCEPT ![c].pc = "mint"]
      BY <1>9, <2>1 DEF SwapLastRefill, Goto
    <2>3. st'.last = t.now /\ st'.tokens = settled.tokens
      BY <1>1, <2>1, <2>2 DEF Bucket
    <2>4. /\ task'[c].now = t.now /\ task'[c].len = t.len /\ task'[c].refill = t.refill
          /\ task'[c].pc = "mint"
      BY <1>1, <1>7, <2>2 DEF Tasks
    <2> QED
      BY <1>1, <1>4, <1>5, <1>6, <2>1, <2>3, <2>4 DEF Progress, e
  <1>10. CASE MintTokens(c)
    <2>1. /\ st.last = t.now /\ st.tokens = settled.tokens /\ t.refill = e /\ t.refill > 0
      BY <1>10 DEF MintTokens, Progress
    <2>2. Wrap(st.tokens + t.refill) = settled.tokens + t.refill
      BY <1>2, <1>3, <2>1, WrapExact, RatesAssumption
    <2>3. /\ st' = [st EXCEPT !.tokens = settled.tokens + t.refill]
          /\ task' = [task EXCEPT ![c].pc = "check"]
      BY <1>10, <2>2 DEF MintTokens, Goto
    <2>4. st'.last = t.now /\ st'.tokens = settled.tokens + t.refill
      BY <1>1, <2>1, <2>3 DEF Bucket
    <2>5. /\ task'[c].now = t.now /\ task'[c].len = t.len /\ task'[c].refill = t.refill
          /\ task'[c].pc = "check"
      BY <1>1, <1>7, <2>3 DEF Tasks
    <2> QED
      BY <1>1, <1>4, <1>5, <1>6, <2>1, <2>4, <2>5 DEF Progress
  <1>11. CASE CheckBurst(c)
    <2> HIDE DEF e, d
    <2>1. /\ st.last = t.now /\ st.tokens = settled.tokens + t.refill /\ t.refill = Earned(c) /\ t.refill > 0
          /\ UNCHANGED st
      BY <1>11 DEF CheckBurst, Progress
    <2>2. /\ task'[c].now = t.now /\ task'[c].len = t.len /\ task'[c].refill = t.refill
          /\ task'[c].curr = st.tokens
          /\ task'[c].pc = IF st.tokens > FLOW_BURST THEN "clamp" ELSE "take"
      BY <1>1, <1>7, <1>11 DEF CheckBurst, Tasks
    <2>3. CASE st.tokens > FLOW_BURST
      BY <1>1, <1>4, <1>5, <1>6, <2>1, <2>2, <2>3 DEF Progress, e
    <2>4. CASE ~(st.tokens > FLOW_BURST)
      <3>1. d = [tokens |-> st.tokens, last |-> t.now]
        BY <1>3, <2>1, <2>4 DEF AtMost, e
      <3>2. st = d
        BY <1>1, <2>1, <3>1 DEF Bucket
      <3> QED
        BY <1>1, <1>4, <1>5, <1>6, <2>1, <2>2, <2>4, <3>2 DEF Progress
    <2> QED
      BY <2>3, <2>4
  <1>12. CASE ClampTokens(c)
    <2> HIDE DEF e, d
    <2>1. /\ st.last = t.now /\ st.tokens = settled.tokens + t.refill /\ t.refill = Earned(c) /\ t.refill > 0
          /\ t.curr = st.tokens /\ st.tokens > FLOW_BURST
      BY <1>12 DEF ClampTokens, Progress
    <2>2. st' = [st EXCEPT !.tokens = FLOW_BURST] /\ task' = [task EXCEPT ![c].pc = "take"]
      BY <1>12, <2>1 DEF ClampTokens, Goto
    <2>3. d = [tokens |-> FLOW_BURST, last |-> t.now]
      BY <1>3, <2>1 DEF AtMost, e
    <2>4. st' = d
      BY <1>1, <2>1, <2>2, <2>3 DEF Bucket
    <2>5. task'[c].now = t.now /\ task'[c].len = t.len /\ task'[c].pc = "take"
      BY <1>1, <1>7, <2>2 DEF Tasks
    <2> QED
      BY <1>1, <1>4, <1>5, <1>6, <2>4, <2>5 DEF Progress
  <1>13. CASE TakeTokens(c) /\ st.tokens < t.len
    <2> HIDE DEF e, d
    <2>1. /\ st = d /\ st' = [st EXCEPT !.tokens = Wrap(@ - t.len)]
          /\ task' = [task EXCEPT ![c].pc = "giveback"]
      BY <1>2, <1>13 DEF TakeTokens, Goto, Progress, d
    <2>2. st' = [tokens |-> Wrap(d.tokens - t.len), last |-> d.last] /\ d.tokens < t.len
      BY <1>1, <1>13, <2>1 DEF Bucket
    <2>3. task'[c].now = t.now /\ task'[c].len = t.len /\ task'[c].pc = "giveback"
      BY <1>1, <1>7, <2>1 DEF Tasks
    <2> QED
      BY <1>1, <1>4, <1>5, <1>6, <2>2, <2>3 DEF Progress
  <1> QED
    BY <1>4, <1>8, <1>9, <1>10, <1>11, <1>12, <1>13

\* One CPU: a call that returns has charged the bucket as one step would.
LEMMA FlowSettles ==
    ASSUME FlowTypes, FlowTypes', SettledAccount, NEW c \in Cpus, Progress(c),
           \/ TakeTokens(c) /\ ~(st.tokens < task[c].len)
           \/ GiveBack(c)
    PROVE  SettledAccount' /\ Progress(c)' /\ \E len \in Lens : Atomic!Consume(len)
  <1> DEFINE e == Earned(c)
             d == Due(c)
             t == task[c]
             n == t.len
  <1>1. /\ t \in Tasks /\ t.pc \in {"take", "giveback"}
        /\ t.now \in settled.last..clock /\ n \in Lens /\ settled.last \in 1..clock
        /\ settled \in Bucket /\ settled.tokens <= FLOW_BURST /\ st \in Bucket
        /\ NS_PER_SEC * (passed + settled.tokens) <= NS_PER_SEC * FLOW_BURST + FLOW_RATE * (settled.last - 1)
    BY DEF FlowTypes, TakeTokens, GiveBack, Progress, SettledAccount
  <1>2. /\ settled.tokens \in Nat /\ settled.last \in Nat /\ st.tokens \in Nat /\ st.last \in Nat
        /\ t.now \in Nat /\ n \in Nat /\ n < U64 /\ clock \in Nat /\ passed \in Nat
    BY <1>1, LensAssumption, RatesAssumption DEF FlowTypes, Bucket, Tasks
  <1>3. /\ e \in Nat /\ NS_PER_SEC * e <= FLOW_RATE * (t.now - settled.last)
        /\ d \in Bucket /\ d.tokens <= FLOW_BURST /\ d.tokens <= settled.tokens + e
        /\ d.last \in settled.last..t.now
        /\ ~(e > 0) => d = settled
        /\ e > 0 => d.last = t.now
    <2>1. e = Refill(t.now - settled.last, FLOW_RATE) /\ d = Refilled(settled, t.now, FLOW_RATE, FLOW_BURST)
      BY DEF Earned, Due
    <2>2. settled \in Bucket /\ t.now \in Nat /\ settled.last <= t.now /\ settled.tokens <= FLOW_BURST
      BY <1>1, <1>2
    <2> HIDE DEF e, d, t
    <2>3. /\ e \in Nat /\ NS_PER_SEC * e <= FLOW_RATE * (t.now - settled.last)
          /\ d \in Bucket /\ d.tokens <= FLOW_BURST /\ d.tokens <= settled.tokens + e
          /\ d.last \in settled.last..t.now
          /\ ~(e > 0) => d = settled
          /\ e > 0 => d = [tokens |-> AtMost(settled.tokens + e, FLOW_BURST), last |-> t.now]
      BY <2>1, <2>2, EarnedBounds
    <2> QED
      BY <2>3
  <1>4. d.tokens \in Nat /\ d.last \in Nat /\ d = [tokens |-> d.tokens, last |-> d.last] /\ d.tokens < U64
    <2>1. FLOW_BURST < U64
      BY WordAssumption, RatesAssumption, TimeAssumption, DivMonotone
    <2> HIDE DEF d
    <2> QED
      BY <1>3, <2>1, RatesAssumption DEF Bucket
  <1>5. d = Refilled(settled, t.now, FLOW_RATE, FLOW_BURST)
    BY DEF Due
  <1> HIDE DEF e, d
  <1>6. NS_PER_SEC * (passed + d.tokens) <= NS_PER_SEC * FLOW_BURST + FLOW_RATE * (d.last - 1)
    <2>1. CASE e > 0
      BY <1>1, <1>2, <1>3, <1>4, <2>1, RefilledAccount
    <2>2. CASE ~(e > 0)
      BY <1>1, <1>3, <2>2
    <2> QED
      BY <2>1, <2>2
  <1>7. task' = [task EXCEPT ![c] = IdleTask] /\ UNCHANGED clock /\ settled' = st'
    BY <1>2 DEF TakeTokens, GiveBack
  <1>8. Progress(c)'
    <2>1. task'[c].pc = "idle"
      BY <1>7, IdleTaskTyped DEF FlowTypes
    <2> QED
      BY <1>7, <2>1 DEF Progress
  <1>9. CASE TakeTokens(c) /\ ~(st.tokens < n)
    <2>1. st = d /\ d.tokens >= n /\ passed' = passed + n /\ st' = [st EXCEPT !.tokens = Wrap(@ - n)]
      BY <1>2, <1>9 DEF TakeTokens, Progress, d
    <2>2. Wrap(st.tokens - n) = d.tokens - n
      BY <1>2, <1>4, <2>1, WrapExact, RatesAssumption
    <2>3. settled' = [d EXCEPT !.tokens = @ - n]
      BY <1>4, <1>7, <2>1, <2>2
    <2>4. settled'.tokens = d.tokens - n /\ settled'.last = d.last
      BY <1>4, <2>3
    <2>5. passed' + settled'.tokens = passed + d.tokens
      BY <1>2, <1>4, <2>1, <2>4
    <2>6. SettledAccount'
      <3>1. settled'.tokens <= FLOW_BURST /\ settled'.last \in 1..clock'
        BY <1>1, <1>2, <1>3, <1>4, <1>7, <2>4, RatesAssumption
      <3>2. NS_PER_SEC * (passed' + settled'.tokens) <= NS_PER_SEC * FLOW_BURST + FLOW_RATE * (settled'.last - 1)
        BY <1>6, <2>4, <2>5, Zenon
      <3> QED
        BY <3>1, <3>2 DEF SettledAccount
    <2>7. FlowTokens(settled, t.now, n) = [pass |-> d.tokens >= n, bucket |-> [d EXCEPT !.tokens = @ - n]]
      BY <1>5, <2>1 DEF FlowTokens, Spend
    <2>8. Atomic!Consume(n)
      BY <1>1, <1>7, <2>1, <2>3, <2>7
         DEF Atomic!Consume, Atomic!FlowTokens, FlowTokens, Atomic!Spend, Spend, Atomic!Refilled, Refilled,
             Atomic!Refill, Refill, Atomic!AtMost, AtMost
    <2> QED
      BY <1>1, <1>8, <2>6, <2>8
  <1>10. CASE GiveBack(c)
    <2>1. /\ st = [tokens |-> Wrap(d.tokens - n), last |-> d.last] /\ d.tokens < n /\ passed' = passed
          /\ st' = [st EXCEPT !.tokens = Wrap(@ + n)]
      BY <1>10 DEF GiveBack, Progress, d
    <2>2. Wrap(d.tokens - n) = d.tokens - n + U64
      BY <1>2, <1>4, <2>1, WrapExact, RatesAssumption
    <2>3. Wrap(st.tokens + n) = d.tokens
      <3>1. st.tokens + n = d.tokens + U64
        BY <1>2, <1>4, <2>1, <2>2, RatesAssumption
      <3>2. Wrap(d.tokens + U64) = d.tokens
        <4>1. (d.tokens + U64) % U64 = d.tokens % U64
          BY <1>4, RatesAssumption
        <4>2. Wrap(d.tokens) = d.tokens
          BY <1>4, WrapExact, RatesAssumption
        <4> QED
          BY <4>1, <4>2 DEF Wrap
      <3> QED
        BY <3>1, <3>2
    <2>4. settled' = d
      BY <1>4, <1>7, <2>1, <2>3
    <2>5. SettledAccount'
      BY <1>1, <1>2, <1>3, <1>4, <1>6, <1>7, <2>1, <2>4 DEF SettledAccount
    <2>6. FlowTokens(settled, t.now, n) = [pass |-> d.tokens >= n, bucket |-> d] /\ ~(d.tokens >= n)
      BY <1>2, <1>4, <1>5, <2>1 DEF FlowTokens, Spend
    <2>7. Atomic!Consume(n)
      BY <1>1, <1>7, <2>1, <2>4, <2>6
         DEF Atomic!Consume, Atomic!FlowTokens, FlowTokens, Atomic!Spend, Spend, Atomic!Refilled, Refilled,
             Atomic!Refill, Refill, Atomic!AtMost, AtMost
    <2> QED
      BY <1>1, <1>8, <2>5, <2>7
  <1> QED
    BY <1>9, <1>10

LEMMA FlowInit == SharedInit => FlowInv /\ Atomic!Init
  <1> SUFFICES ASSUME SharedInit PROVE FlowInv /\ Atomic!Init
    OBVIOUS
  <1>1. /\ clock = 1 /\ passed = 0 /\ st = [tokens |-> FLOW_BURST, last |-> 1] /\ settled = st
        /\ task = [c \in Cpus |-> IdleTask] /\ scenario \in Scenarios
    BY DEF SharedInit, Init
  <1>2. FlowTypes
    BY <1>1, IdleTaskTyped, BoundAssumption, RatesAssumption DEF FlowTypes, Bucket
  <1>3. SettledAccount
    <2>1. settled.tokens = FLOW_BURST /\ settled.last = 1 /\ settled.last - 1 = 0 /\ passed + settled.tokens = FLOW_BURST
      BY <1>1, RatesAssumption
    <2>2. FLOW_RATE * 0 = 0 /\ NS_PER_SEC * FLOW_BURST \in Nat
      BY RatesAssumption, TimeAssumption
    <2> QED
      BY <1>1, <2>1, <2>2, RatesAssumption DEF SettledAccount
  <1>4. ASSUME NEW c \in scenario.cpus PROVE Progress(c)
    <2>1. c \in Cpus
      BY <1>1, ScenarioAssumption
    <2> QED
      BY <1>1, <2>1, IdleTaskTyped DEF Progress
  <1> QED
    BY <1>1, <1>2, <1>3, <1>4 DEF FlowInv, Atomic!Init

\* Every step keeps the invariant of the flow's bucket; while one CPU serves
\* the flow it is a step of the atomic bucket or leaves that bucket alone.
LEMMA FlowNext ==
    ASSUME FlowInv, InScenario, [SharedNext]_sharedVars
    PROVE  FlowInv' /\ (Serial => [Atomic!Next]_(Atomic!vars))
  <1> USE DEF Atomic!vars
  <1>0. /\ scenario.cpus \subseteq Cpus /\ FlowTypes
        /\ Serial => SettledAccount /\ \A c \in scenario.cpus : Progress(c)
    BY ScenarioAssumption DEF InScenario, FlowInv
  <1>1. CASE UNCHANGED <<vars, scenario>>
    <2>1. FlowTypes' /\ (Serial' <=> Serial) /\ (SettledAccount' <=> SettledAccount)
      BY <1>0, <1>1 DEF vars, FlowTypes, Serial, SettledAccount
    <2>2. \A c \in scenario.cpus : Progress(c) => Progress(c)'
      BY <1>1 DEF vars, Progress, Earned, Due
    <2> QED
      BY <1>0, <1>1, <2>1, <2>2 DEF vars, FlowInv
  <1>2. ASSUME NEW c \in scenario.cpus, ConsumeFlow(c) PROVE FlowInv' /\ (Serial => [Atomic!Next]_(Atomic!vars))
    <2>1. c \in Cpus /\ FlowTypes' /\ scenario' = scenario
      BY <1>0, <1>2, FlowTyped DEF ConsumeFlow
    <2>2. CASE ~Serial
      BY <2>1, <2>2 DEF FlowInv, Serial
    <2>3. CASE Serial
      <3>1. SettledAccount /\ Progress(c)
        BY <1>0, <1>2, <2>3
      <3>2. \A d \in scenario.cpus : d = c
        BY <1>2, <2>3 DEF Serial
      <3>3. \/ LoadRefill(c) \/ SwapLastRefill(c) \/ MintTokens(c) \/ CheckBurst(c) \/ ClampTokens(c)
            \/ TakeTokens(c) /\ st.tokens < task[c].len
            \/ TakeTokens(c) /\ ~(st.tokens < task[c].len)
            \/ GiveBack(c)
        BY <1>2 DEF ConsumeFlow
      <3>4. /\ SettledAccount' /\ Progress(c)'
            /\ UNCHANGED <<clock, settled, passed>> \/ \E len \in Lens : Atomic!Consume(len)
        BY <1>0, <2>1, <3>1, <3>3, FlowAdvances, FlowSettles
      <3> QED
        BY <2>1, <3>2, <3>4 DEF FlowInv, Atomic!Next
    <2> QED
      BY <2>2, <2>3
  <1>3. ASSUME NEW c \in scenario.cpus, NEW len \in Lens, Enter(c, len)
        PROVE  FlowInv' /\ (Serial => [Atomic!Next]_(Atomic!vars))
    <2> DEFINE t == [IdleTask EXCEPT !.pc = "load", !.len = len, !.now = clock]
    <2>1. /\ task' = [task EXCEPT ![c] = t] /\ task[c].pc = "idle"
          /\ UNCHANGED <<clock, st, passed, settled, scenario>>
      BY <1>3 DEF Enter, SampleClock
    <2>2. t \in Tasks /\ t.pc = "load" /\ t.len = len /\ t.now = clock
      <3>1. len \in Nat /\ clock \in Nat
        BY <1>0, LensAssumption, RatesAssumption, BoundAssumption DEF FlowTypes
      <3> QED
        BY <3>1, IdleTaskTyped DEF Tasks
    <2> HIDE DEF t
    <2>3. FlowTypes' /\ task'[c] = t
      BY <1>0, <2>1, <2>2 DEF FlowTypes
    <2>4. ASSUME Serial PROVE SettledAccount' /\ \A d \in scenario.cpus : Progress(d)'
      <3>1. SettledAccount /\ st = settled /\ settled.last \in 1..clock
        BY <1>0, <2>1, <2>4 DEF Progress, SettledAccount
      <3>2. SettledAccount'
        BY <2>1, <3>1 DEF SettledAccount
      <3>3. \A d \in scenario.cpus : d = c
        BY <2>4 DEF Serial
      <3>4. clock \in settled.last..clock
        BY <1>0, <3>1 DEF FlowTypes
      <3>5. Progress(c)'
        BY <2>1, <2>2, <2>3, <3>1, <3>4 DEF Progress
      <3> QED
        BY <3>2, <3>3, <3>5
    <2> QED
      BY <2>1, <2>3, <2>4 DEF FlowInv, Serial
  <1>4. CASE SharedTick
    <2>1. /\ clock' = clock + 1 /\ clock < MaxClock
          /\ UNCHANGED <<st, task, passed, settled, scenario>>
      BY <1>4 DEF SharedTick, Tick
    <2>2. FlowTypes' /\ clock \in Nat
      BY <1>0, <2>1, BoundAssumption DEF FlowTypes
    <2>3. SettledAccount => SettledAccount'
      BY <2>1, <2>2 DEF SettledAccount
    <2>4. \A c \in scenario.cpus : Progress(c) => Progress(c)'
      <3> SUFFICES ASSUME NEW c \in scenario.cpus, Progress(c) PROVE Progress(c)'
        OBVIOUS
      <3>1. task[c].now \in settled.last..clock => task[c].now \in settled.last..clock'
        BY <2>1, <2>2
      <3>2. Earned(c)' = Earned(c) /\ Due(c)' = Due(c)
        BY <2>1 DEF Earned, Due
      <3> QED
        BY <2>1, <3>1, <3>2 DEF Progress
    <2>5. Atomic!Tick
      BY <2>1 DEF Atomic!Tick
    <2> QED
      BY <1>0, <2>1, <2>2, <2>3, <2>4, <2>5 DEF FlowInv, Serial, Atomic!Next
  <1> QED
    BY <1>1, <1>2, <1>3, <1>4 DEF SharedNext, Charge, Leave, SharedDone, sharedVars

\* What is left in the bucket only makes the account of what passed smaller.
LEMMA FlowLimited == FlowInv => FlowLimitSerial
  <1> SUFFICES ASSUME FlowTypes, SettledAccount PROVE FlowLimit
    BY DEF FlowInv, FlowLimitSerial
  <1>1. /\ settled.tokens \in Nat /\ settled.last \in Nat /\ clock \in Nat /\ passed \in Nat
        /\ settled.last - 1 <= clock - 1
    BY DEF FlowTypes, SettledAccount, Bucket
  <1>2. /\ NS_PER_SEC * passed <= NS_PER_SEC * (passed + settled.tokens)
        /\ FLOW_RATE * (settled.last - 1) <= FLOW_RATE * (clock - 1)
    BY <1>1, ScaleUp, TimeAssumption, RatesAssumption
  <1>3. /\ NS_PER_SEC * passed \in Int /\ NS_PER_SEC * (passed + settled.tokens) \in Int
        /\ FLOW_RATE * (settled.last - 1) \in Int /\ FLOW_RATE * (clock - 1) \in Int
        /\ NS_PER_SEC * FLOW_BURST \in Int
    BY <1>1, ScaleUp, TimeAssumption, RatesAssumption
  <1>4. NS_PER_SEC * (passed + settled.tokens) <= NS_PER_SEC * FLOW_BURST + FLOW_RATE * (settled.last - 1)
    BY DEF SettledAccount
  <1> QED
    BY <1>2, <1>3, <1>4 DEF FlowLimit

\* The account of the packet bucket after a refill, and after a decrement.
LEMMA PpsRefilled ==
    ASSUME NEW n \in Nat, NEW t \in Nat, NEW t2 \in Nat, NEW r \in Nat, t2 <= t + r,
           NEW l \in Int, NEW now \in Int,
           NS_PER_SEC * r <= GLOBAL_PPS_LIMIT * (now - l), PpsAccount(n, t, l)
    PROVE  PpsAccount(n, t2, now)
  <1>1. NS_PER_SEC * (n + t2) <= NS_PER_SEC * ((n + t) + r)
        /\ NS_PER_SEC * ((n + t) + r) = NS_PER_SEC * (n + t) + NS_PER_SEC * r
    BY ScaleUp, TimeAssumption
  <1>2. GLOBAL_PPS_LIMIT * now = GLOBAL_PPS_LIMIT * l + GLOBAL_PPS_LIMIT * (now - l)
    BY RatesAssumption
  <1>3. /\ NS_PER_SEC * (n + t2) \in Int /\ NS_PER_SEC * (n + t) \in Int /\ NS_PER_SEC * r \in Int
        /\ GLOBAL_PPS_LIMIT * l \in Int /\ GLOBAL_PPS_LIMIT * (now - l) \in Int
        /\ NS_PER_SEC * GLOBAL_PPS_LIMIT \in Int
        /\ NS_PER_SEC * ((n + t) + r) \in Int /\ GLOBAL_PPS_LIMIT * now \in Int
    BY TimeAssumption, RatesAssumption
  <1>4. NS_PER_SEC * (n + t) <= NS_PER_SEC * GLOBAL_PPS_LIMIT + GLOBAL_PPS_LIMIT * l
    BY DEF PpsAccount
  <1>5. NS_PER_SEC * (n + t2) <= NS_PER_SEC * GLOBAL_PPS_LIMIT + GLOBAL_PPS_LIMIT * now
    BY <1>1, <1>2, <1>3, <1>4
  <1> QED
    BY <1>5 DEF PpsAccount

LEMMA PpsSpent ==
    ASSUME NEW n \in Nat, NEW t \in Nat, NEW n2 \in Nat, NEW t2 \in Nat, n2 + t2 <= n + t,
           NEW l \in Int, PpsAccount(n, t, l)
    PROVE  PpsAccount(n2, t2, l)
  <1>1. NS_PER_SEC * (n2 + t2) <= NS_PER_SEC * (n + t)
        /\ NS_PER_SEC * (n2 + t2) \in Int /\ NS_PER_SEC * (n + t) \in Int
    BY ScaleUp, TimeAssumption
  <1>2. NS_PER_SEC * GLOBAL_PPS_LIMIT \in Int /\ GLOBAL_PPS_LIMIT * l \in Int
    BY TimeAssumption, RatesAssumption
  <1> QED
    BY <1>1, <1>2 DEF PpsAccount

\* What is left in the bucket only makes the account of what passed smaller.
LEMMA PpsCovered ==
    ASSUME NEW n \in Nat, NEW t \in Nat, NEW l \in Int, NEW k \in Nat, l <= k, PpsAccount(n, t, l)
    PROVE  NS_PER_SEC * n <= NS_PER_SEC * GLOBAL_PPS_LIMIT + GLOBAL_PPS_LIMIT * k
  <1>1. NS_PER_SEC * n <= NS_PER_SEC * (n + t) /\ GLOBAL_PPS_LIMIT * l <= GLOBAL_PPS_LIMIT * k
    BY ScaleUp, TimeAssumption, RatesAssumption DEF PpsAccount
  <1>2. /\ NS_PER_SEC * n \in Int /\ NS_PER_SEC * (n + t) \in Int /\ GLOBAL_PPS_LIMIT * l \in Int
        /\ GLOBAL_PPS_LIMIT * k \in Int /\ NS_PER_SEC * GLOBAL_PPS_LIMIT \in Int
    BY TimeAssumption, RatesAssumption
  <1> QED
    BY <1>1, <1>2 DEF PpsAccount

\* One CPU: each access of consume_global_pps keeps the account.
LEMMA PpsAdvances ==
    ASSUME Inv, admitted \in Nat, pps.last \in 0..clock, NEW c \in Cpus, PpsProgress(c),
           NS_PER_SEC * admitted <= NS_PER_SEC * GLOBAL_PPS_LIMIT + GLOBAL_PPS_LIMIT * clock,
           Pps!ConsumePps(c), UNCHANGED clock
    PROVE  /\ pps'.last \in 0..clock' /\ admitted' \in Nat
           /\ PpsProgress(c)'
           /\ NS_PER_SEC * admitted' <= NS_PER_SEC * GLOBAL_PPS_LIMIT + GLOBAL_PPS_LIMIT * clock'
  <1> DEFINE t == call[c]
             u == call'[c]
  <1>1. /\ clock \in Nat /\ pps \in [tokens : Nat, last : Int] /\ pps.tokens \in Nat /\ pps.last \in Nat
        /\ t \in Calls /\ call \in [Cpus -> Calls]
        /\ t.now \in Nat /\ t.refill \in Nat /\ t.reg \in Nat
    BY DEF Inv, PpsTypes, Calls
  <1>2. GLOBAL_PPS_LIMIT \in Nat
    BY RatesAssumption
  <1>3. CASE Pps!SampleTime(c)
    <2>1. u.pc = "delta" /\ u.now = clock /\ UNCHANGED <<pps, admitted>>
      BY <1>1, <1>3, IdleTyped DEF Pps!SampleTime, Calls
    <2>2. PpsAccount(admitted, pps.tokens, pps.last)
      BY <1>3 DEF Pps!SampleTime, Pps!At, PpsProgress
    <2>3. u.now \in pps.last..clock
      BY <1>1, <2>1
    <2> QED
      BY <2>1, <2>2, <2>3 DEF PpsProgress
  <1>4. CASE Pps!LoadLastTs(c)
    <2> DEFINE d == t.now - pps.last
               r == Refill(Pps!PpsWrap(d), GLOBAL_PPS_LIMIT)
    <2>1. /\ t.now \in pps.last..clock /\ d \in Nat /\ PpsAccount(admitted, pps.tokens, pps.last)
          /\ UNCHANGED <<pps, admitted>>
      BY <1>1, <1>4 DEF Pps!LoadLastTs, Pps!At, PpsProgress
    <2>2. Pps!PpsWrap(d) \in Nat /\ Pps!PpsWrap(d) <= d
      BY <2>1, WrapAtMost
    <2>3. r \in Nat /\ NS_PER_SEC * r <= GLOBAL_PPS_LIMIT * Pps!PpsWrap(d)
      BY <1>2, <2>2, RefillBound
    <2>4. call' = [call EXCEPT ![c] = [@ EXCEPT !.refill = r, !.pc = IF r > 0 THEN "refill" ELSE "test"]]
      BY <1>4 DEF Pps!LoadLastTs, Pps!Refill, Refill
    <2> HIDE DEF r
    <2>5. NS_PER_SEC * r <= GLOBAL_PPS_LIMIT * d
      <3>1. GLOBAL_PPS_LIMIT * Pps!PpsWrap(d) <= GLOBAL_PPS_LIMIT * d
        BY <1>2, <2>1, <2>2, ScaleUp
      <3>2. GLOBAL_PPS_LIMIT * Pps!PpsWrap(d) \in Int /\ GLOBAL_PPS_LIMIT * d \in Int /\ NS_PER_SEC * r \in Int
        BY <1>2, <2>1, <2>2, <2>3, TimeAssumption
      <3> QED
        BY <2>3, <3>1, <3>2
    <2>6. u.now = t.now /\ u.refill = r /\ u.pc = IF r > 0 THEN "refill" ELSE "test"
      BY <1>1, <2>4 DEF Calls
    <2> QED
      BY <2>1, <2>5, <2>6 DEF PpsProgress
  <1>5. CASE Pps!LoadTokens(c)
    <2> DEFINE n == Pps!PpsWrap(pps.tokens + t.refill)
    <2>1. /\ t.now \in pps.last..clock /\ NS_PER_SEC * t.refill <= GLOBAL_PPS_LIMIT * (t.now - pps.last)
          /\ PpsAccount(admitted, pps.tokens, pps.last) /\ UNCHANGED <<pps, admitted>>
      BY <1>5 DEF Pps!LoadTokens, Pps!At, PpsProgress
    <2>2. n <= pps.tokens + t.refill
      BY <1>1, WrapAtMost
    <2>3. call' = [call EXCEPT ![c] = [@ EXCEPT !.reg = n, !.pc = "add"]]
      BY <1>5 DEF Pps!LoadTokens
    <2> HIDE DEF n
    <2>4. u.now = t.now /\ u.refill = t.refill /\ u.reg = n /\ u.pc = "add"
      BY <1>1, <2>3 DEF Calls
    <2>5. UNCHANGED <<pps, admitted, clock>>
      BY <1>1, <2>1
    <2> HIDE DEF t, u
    <2> QED
      BY <2>1, <2>2, <2>4, <2>5 DEF PpsProgress, t, u
  <1>6. CASE Pps!StoreRefilled(c)
    <2>1. /\ t.now \in pps.last..clock /\ NS_PER_SEC * t.refill <= GLOBAL_PPS_LIMIT * (t.now - pps.last)
          /\ t.reg <= pps.tokens + t.refill
          /\ PpsAccount(admitted, pps.tokens, pps.last) /\ UNCHANGED <<admitted>>
      BY <1>6 DEF Pps!StoreRefilled, Pps!At, PpsProgress
    <2>2. PpsAccount(admitted, t.reg, t.now)
      <3>1. /\ pps.tokens \in Nat /\ pps.last \in Int /\ admitted \in Nat
            /\ t.reg \in Nat /\ t.refill \in Nat /\ t.now \in Int
        BY <1>1
      <3> HIDE DEF t
      <3> QED
        BY <2>1, <3>1, PpsRefilled
    <2>3. /\ pps' = [pps EXCEPT !.tokens = t.reg]
          /\ call' = [call EXCEPT ![c].pc = IF t.reg > GLOBAL_PPS_LIMIT THEN "clamp" ELSE "stamp"]
      BY <1>6 DEF Pps!StoreRefilled, Pps!Step
    <2>4. /\ pps'.tokens = t.reg /\ pps'.last = pps.last /\ u.now = t.now
          /\ u.pc = IF t.reg > GLOBAL_PPS_LIMIT THEN "clamp" ELSE "stamp"
      BY <1>1, <2>3 DEF Calls
    <2> QED
      BY <2>1, <2>2, <2>4 DEF PpsProgress
  <1>7. CASE Pps!StoreClamped(c)
    <2>1. /\ t.now \in pps.last..clock /\ pps.tokens > GLOBAL_PPS_LIMIT
          /\ PpsAccount(admitted, pps.tokens, t.now) /\ UNCHANGED <<admitted>>
      BY <1>7 DEF Pps!StoreClamped, Pps!At, PpsProgress
    <2>2. PpsAccount(admitted, GLOBAL_PPS_LIMIT, t.now)
      BY <1>1, <1>2, <2>1, PpsSpent
    <2>3. pps' = [pps EXCEPT !.tokens = GLOBAL_PPS_LIMIT] /\ call' = [call EXCEPT ![c].pc = "stamp"]
      BY <1>7 DEF Pps!StoreClamped, Pps!Step
    <2>4. pps'.tokens = GLOBAL_PPS_LIMIT /\ pps'.last = pps.last /\ u.now = t.now /\ u.pc = "stamp"
      BY <1>1, <2>3 DEF Calls
    <2> QED
      BY <2>1, <2>2, <2>4 DEF PpsProgress
  <1>8. CASE Pps!StoreLastTs(c)
    <2>1. t.now \in pps.last..clock /\ PpsAccount(admitted, pps.tokens, t.now) /\ UNCHANGED <<admitted>>
      BY <1>8 DEF Pps!StoreLastTs, Pps!At, PpsProgress
    <2>2. pps' = [pps EXCEPT !.last = t.now] /\ call' = [call EXCEPT ![c].pc = "copy"]
      BY <1>8 DEF Pps!StoreLastTs, Pps!Step
    <2>3. pps'.tokens = pps.tokens /\ pps'.last = t.now /\ u.pc = "copy"
      BY <1>1, <2>2 DEF Calls
    <2> QED
      BY <1>1, <2>1, <2>3 DEF PpsProgress
  <1>9. CASE Pps!CopyRead(c, "copy", "copied")
    <2>1. PpsAccount(admitted, pps.tokens, pps.last) /\ UNCHANGED <<pps, admitted>>
      BY <1>9 DEF Pps!CopyRead, Pps!At, PpsProgress
    <2>2. u.pc = "copied" /\ u.reg = pps.tokens /\ u.old = pps.last
      BY <1>1, <1>9 DEF Pps!CopyRead, Calls
    <2> QED
      BY <2>1, <2>2 DEF PpsProgress
  <1>10. CASE Pps!RefillCopied(c)
    <2>1. PpsAccount(admitted, pps.tokens, pps.last) /\ t.reg = pps.tokens /\ t.old = pps.last /\ UNCHANGED <<admitted>>
      BY <1>10 DEF Pps!RefillCopied, Pps!At, PpsProgress
    <2>2. pps'.tokens = pps.tokens /\ pps'.last = pps.last /\ u.pc = "test"
      BY <1>1, <1>10, <2>1 DEF Pps!RefillCopied, Pps!Step, Calls
    <2> QED
      BY <2>1, <2>2 DEF PpsProgress
  <1>11. CASE Pps!TestTokens(c)
    <2>1. PpsAccount(admitted, pps.tokens, pps.last) /\ UNCHANGED <<pps, admitted>>
      BY <1>11 DEF Pps!TestTokens, Pps!At, PpsProgress
    <2>2. CASE pps.tokens < 1
      <3>1. u.pc = "idle"
        BY <1>1, <1>11, <2>2, IdleTyped DEF Pps!TestTokens
      <3> QED
        BY <2>1, <3>1 DEF PpsProgress
    <2>3. CASE ~(pps.tokens < 1)
      <3>1. call' = [call EXCEPT ![c] = [@ EXCEPT !.reg = pps.tokens, !.pc = "spend"]]
        BY <1>11, <2>3 DEF Pps!TestTokens
      <3>2. u.pc = "spend" /\ u.reg = pps.tokens
        BY <1>1, <3>1 DEF Calls
      <3> QED
        BY <2>1, <3>2 DEF PpsProgress
    <2> QED
      BY <2>2, <2>3
  <1>12. CASE Pps!StoreDecrement(c)
    <2> DEFINE n == Pps!PpsWrap(t.reg - 1)
    <2>1. /\ PpsAccount(admitted, pps.tokens, pps.last) /\ t.reg = pps.tokens /\ t.reg >= 1 /\ UNCHANGED <<admitted>>
      BY <1>12 DEF Pps!StoreDecrement, Pps!At, PpsProgress, Inv, RegistersPaid
    <2>2. n \in Nat /\ n <= t.reg - 1
      BY <1>1, <2>1, WrapAtMost
    <2>3. pps' = [pps EXCEPT !.tokens = n] /\ call' = [call EXCEPT ![c].pc = "save"]
      BY <1>12 DEF Pps!StoreDecrement, Pps!Step
    <2> HIDE DEF n
    <2>4. PpsAccount(admitted + 1, n, pps.last)
      BY <1>1, <2>1, <2>2, PpsSpent
    <2>5. pps'.tokens = n /\ pps'.last = pps.last /\ u.pc = "save"
      BY <1>1, <2>3 DEF Calls
    <2> QED
      BY <2>1, <2>4, <2>5 DEF PpsProgress
  <1>13. CASE Pps!CopyRead(c, "save", "saved")
    <2>1. PpsAccount(admitted + 1, pps.tokens, pps.last) /\ UNCHANGED <<pps, admitted>>
      BY <1>13 DEF Pps!CopyRead, Pps!At, PpsProgress
    <2>2. u.pc = "saved" /\ u.reg = pps.tokens /\ u.old = pps.last
      BY <1>1, <1>13 DEF Pps!CopyRead, Calls
    <2> QED
      BY <2>1, <2>2 DEF PpsProgress
  <1>14. CASE Pps!SpendCopied(c)
    <2>1. PpsAccount(admitted + 1, pps.tokens, pps.last) /\ t.reg = pps.tokens /\ t.old = pps.last
      BY <1>14 DEF Pps!SpendCopied, Pps!At, PpsProgress
    <2>2. /\ pps'.tokens = pps.tokens /\ pps'.last = pps.last /\ admitted' = admitted + 1
          /\ call' = [call EXCEPT ![c] = [Pps!IdleCall EXCEPT !.pc = "passed"]]
      BY <1>14, <2>1 DEF Pps!SpendCopied
    <2>3. u.pc = "passed"
      BY <1>1, <2>2, IdleTyped DEF Calls
    <2>4. PpsAccount(admitted', pps'.tokens, pps'.last)
      BY <2>1, <2>2, Zenon
    <2>5. pps'.last \in 0..clock /\ admitted' \in Nat
      BY <2>2
    <2>6. PpsProgress(c)'
      BY <2>3, <2>4 DEF PpsProgress
    <2>7. NS_PER_SEC * admitted' <= NS_PER_SEC * GLOBAL_PPS_LIMIT + GLOBAL_PPS_LIMIT * clock
      BY <1>1, <2>1, <2>2, PpsCovered
    <2> QED
      BY <2>5, <2>6, <2>7
  <1> QED
    BY <1>3, <1>4, <1>5, <1>6, <1>7, <1>8, <1>9, <1>10, <1>11, <1>12, <1>13, <1>14 DEF Pps!ConsumePps

LEMMA PpsInitial == SharedInit => PpsInv
  <1> SUFFICES ASSUME SharedInit PROVE PpsInv
    OBVIOUS
  <1>1. /\ clock = 1 /\ admitted = 0 /\ pps = [tokens |-> GLOBAL_PPS_LIMIT, last |-> 0]
        /\ call = [c \in Cpus |-> Pps!IdleCall] /\ scenario.cpus \subseteq Cpus
    BY ScenarioAssumption DEF SharedInit, Init, Pps!PpsInit
  <1>2. GLOBAL_PPS_LIMIT \in Nat /\ NS_PER_SEC \in Nat
    BY RatesAssumption, TimeAssumption
  <1>3. PpsAccount(admitted, pps.tokens, pps.last)
    <2>1. admitted + pps.tokens = GLOBAL_PPS_LIMIT /\ pps.last = 0
      BY <1>1, <1>2
    <2>2. NS_PER_SEC * GLOBAL_PPS_LIMIT \in Nat /\ GLOBAL_PPS_LIMIT * 0 = 0
      BY <1>2
    <2> QED
      BY <2>1, <2>2 DEF PpsAccount
  <1>4. ASSUME NEW c \in scenario.cpus PROVE PpsProgress(c)
    BY <1>1, <1>3, IdleTyped DEF PpsProgress
  <1>5. NS_PER_SEC * admitted <= NS_PER_SEC * GLOBAL_PPS_LIMIT + GLOBAL_PPS_LIMIT * clock
    BY <1>1, <1>2, <1>3, PpsCovered
  <1> QED
    BY <1>1, <1>4, <1>5 DEF PpsInv

LEMMA PpsNext ==
    ASSUME PpsInv, Inv, InScenario, [SharedNext]_sharedVars
    PROVE  PpsInv'
  <1>0. /\ scenario.cpus \subseteq Cpus /\ clock \in Nat /\ admitted \in Nat /\ call \in [Cpus -> Calls]
    BY ScenarioAssumption DEF InScenario, Inv, PpsTypes, PpsInv
  <1>1. ASSUME NEW c \in scenario.cpus, Charge(c) PROVE PpsInv'
    <2>1. c \in Cpus /\ scenario' = scenario /\ clock' = clock /\ Pps!ConsumePps(c)
      BY <1>0, <1>1 DEF Charge, vars
    <2>2. admitted' \in Nat
      BY <1>0, <2>1 DEF Pps!ConsumePps, Pps!SampleTime, Pps!LoadLastTs, Pps!LoadTokens, Pps!StoreRefilled,
         Pps!StoreClamped, Pps!StoreLastTs, Pps!CopyRead, Pps!RefillCopied, Pps!TestTokens,
         Pps!StoreDecrement, Pps!SpendCopied
    <2>3. CASE ~Serial
      BY <2>1, <2>2, <2>3 DEF PpsInv, Serial
    <2>4. CASE Serial
      <3>1. \A d \in scenario.cpus : d = c
        BY <2>4 DEF Serial
      <3>2. /\ pps'.last \in 0..clock' /\ PpsProgress(c)'
            /\ NS_PER_SEC * admitted' <= NS_PER_SEC * GLOBAL_PPS_LIMIT + GLOBAL_PPS_LIMIT * clock'
        BY <2>1, <2>4, PpsAdvances DEF PpsInv
      <3> QED
        BY <2>1, <2>2, <3>1, <3>2 DEF PpsInv
    <2> QED
      BY <2>3, <2>4
  <1>2. ASSUME NEW c \in scenario.cpus, Pps!Return(c), UNCHANGED <<clock, scenario>> PROVE PpsInv'
    <2>1. UNCHANGED <<pps, admitted>> /\ \A d \in Cpus : call'[d] = IF d = c THEN Pps!IdleCall ELSE call[d]
      BY <1>0, <1>2 DEF Pps!Return
    <2>2. ASSUME NEW d \in scenario.cpus, PpsProgress(d) PROVE PpsProgress(d)'
      <3>1. CASE d = c
        <4>1. call'[d].pc = "idle" /\ PpsAccount(admitted, pps.tokens, pps.last)
          BY <1>0, <1>2, <2>1, <2>2, <3>1, IdleTyped DEF Pps!Return, Pps!At, PpsProgress
        <4> QED
          BY <2>1, <4>1 DEF PpsProgress
      <3>2. CASE d # c
        <4>1. call'[d] = call[d]
          BY <1>0, <2>1, <3>2
        <4> QED
          BY <1>2, <2>1, <2>2, <4>1 DEF PpsProgress
      <3> QED
        BY <3>1, <3>2
    <2> QED
      BY <1>2, <2>1, <2>2 DEF PpsInv, Serial
  <1>3. ASSUME clock' \in Nat, clock <= clock', UNCHANGED <<ppsVars, scenario>> PROVE PpsInv'
    <2>1. GLOBAL_PPS_LIMIT * clock <= GLOBAL_PPS_LIMIT * clock'
      <3>1. clock \in Int /\ clock' \in Int /\ GLOBAL_PPS_LIMIT \in Nat
        BY <1>0, <1>3, RatesAssumption
      <3> QED
        BY <1>3, <3>1, ScaleUp
    <2>2. GLOBAL_PPS_LIMIT * clock \in Int /\ GLOBAL_PPS_LIMIT * clock' \in Int /\ NS_PER_SEC * admitted \in Int
          /\ NS_PER_SEC * GLOBAL_PPS_LIMIT \in Int
      BY <1>0, <1>3, RatesAssumption, TimeAssumption
    <2>3. ASSUME NEW d \in scenario.cpus, PpsProgress(d) PROVE PpsProgress(d)'
      <3>1. call[d].now \in pps.last..clock => call[d].now \in pps.last..clock'
        BY <1>0, <1>3
      <3> QED
        BY <1>3, <2>3, <3>1 DEF ppsVars, PpsProgress
    <2>4. pps.last \in 0..clock => pps.last \in 0..clock'
      BY <1>0, <1>3
    <2>5. NS_PER_SEC * admitted <= NS_PER_SEC * GLOBAL_PPS_LIMIT + GLOBAL_PPS_LIMIT * clock
            => NS_PER_SEC * admitted <= NS_PER_SEC * GLOBAL_PPS_LIMIT + GLOBAL_PPS_LIMIT * clock'
      BY <2>1, <2>2
    <2> QED
      BY <1>3, <2>3, <2>4, <2>5 DEF ppsVars, PpsInv, Serial
  <1>4. ASSUME NEW c \in scenario.cpus, Leave(c) PROVE PpsInv'
    BY <1>2, <1>4 DEF Leave, vars
  <1>5. ASSUME NEW c \in scenario.cpus, NEW len \in Lens, Enter(c, len) PROVE PpsInv'
    BY <1>2, <1>5 DEF Enter, SampleClock
  <1>6. ASSUME NEW c \in scenario.cpus, ConsumeFlow(c) PROVE PpsInv'
    BY <1>0, <1>3, <1>6 DEF ConsumeFlow, LoadRefill, SwapLastRefill, MintTokens, CheckBurst,
                            ClampTokens, TakeTokens, GiveBack
  <1>7. CASE SharedTick
    BY <1>0, <1>3, <1>7 DEF SharedTick, Tick
  <1>8. CASE UNCHANGED sharedVars
    BY <1>0, <1>3, <1>8 DEF sharedVars, vars
  <1> QED
    BY <1>1, <1>4, <1>5, <1>6, <1>7, <1>8 DEF SharedNext, SharedDone

----------------------------------------------------------------------------
(***************************************************************************)
(* Any number of CPUs.  The flow's bucket is updated by atomic additions   *)
(* and exchanges, so its count is always the balance less what the calls   *)
(* that have not yet given back hold, modulo the word.                     *)
(***************************************************************************)
Lengths   == [c \in Cpus |-> task[c].len]
Undecided == {c \in Cpus : task[c].pc = "giveback"}
Taken     == SumFunctionOnSet(Lengths, Undecided)

CreditInv == FlowTypes /\ credit \in Int /\ NoLostUpdate

LEMMA LostIs ==
    /\ NoLostUpdate <=> st.tokens = Wrap(credit - Taken)
    /\ NoLostUpdate' <=> st'.tokens = Wrap(credit' - Taken')
  BY DEF NoLostUpdate, Taken, Lengths, Undecided, Wrap

\* Numbers that differ by a multiple of the word wrap to the same one.
LEMMA WrapShift ==
    ASSUME NEW x \in Int, NEW n \in Int
    PROVE  Wrap(Wrap(x) + n) = Wrap(x + n)
  <1> DEFINE y  == Wrap(x)
             q  == x \div U64
             a  == y + n
             ma == a % U64
             qa == a \div U64
             b  == x + n
             mb == b % U64
             qb == b \div U64
             k  == (qb - q) - qa
  <1>1. U64 \in Nat \ {0}
    BY RatesAssumption
  <1>2. y \in Int /\ q \in Int /\ x = U64 * q + y
    BY <1>1 DEF Wrap
  <1>3. a \in Int /\ ma \in 0..(U64 - 1) /\ qa \in Int /\ a = U64 * qa + ma
    <2>1. a \in Int
      BY <1>2
    <2> HIDE DEF a
    <2> QED
      BY <1>1, <2>1
  <1>4. b \in Int /\ mb \in 0..(U64 - 1) /\ qb \in Int /\ b = U64 * qb + mb
    <2>1. b \in Int
      OBVIOUS
    <2> HIDE DEF b
    <2> QED
      BY <1>1, <2>1
  <1>5. Wrap(Wrap(x) + n) = ma /\ Wrap(x + n) = mb
    BY DEF Wrap
  <1>6. a = y + n /\ b = x + n /\ k = (qb - q) - qa
    OBVIOUS
  <1> HIDE DEF y, q, a, ma, qa, b, mb, qb, k
  <1>7. k \in Int
    BY <1>2, <1>3, <1>4, <1>6
  <1>8. U64 * k = (U64 * qb - U64 * q) - U64 * qa
    BY <1>1, <1>2, <1>3, <1>4, <1>6
  <1>9. /\ U64 * k = ma - mb
        /\ U64 * k \in Int /\ U64 * k < U64 /\ U64 * k > -U64
    <2>1. U64 * q \in Int /\ U64 * qa \in Int /\ U64 * qb \in Int
      BY <1>1, <1>2, <1>3, <1>4
    <2>2. U64 * k = ma - mb
      BY <1>2, <1>3, <1>4, <1>6, <1>8, <2>1
    <2> QED
      BY <1>1, <1>3, <1>4, <2>2
  <1>10. ~(1 <= k)
    <2> SUFFICES ASSUME 1 <= k PROVE FALSE
      OBVIOUS
    <2>1. U64 * 1 <= U64 * k /\ U64 * 1 = U64
      BY <1>1, <1>7, ScaleUp
    <2> QED
      BY <1>1, <1>9, <2>1
  <1>11. ~(k <= -1)
    <2> SUFFICES ASSUME k <= -1 PROVE FALSE
      OBVIOUS
    <2>1. U64 * k <= U64 * (-1) /\ U64 * (-1) = -U64
      BY <1>1, <1>7, ScaleUp
    <2> QED
      BY <1>1, <1>9, <2>1
  <1>12. k = 0
    BY <1>7, <1>10, <1>11
  <1>13. ma - mb = 0
    BY <1>1, <1>9, <1>12
  <1> QED
    BY <1>3, <1>4, <1>5, <1>13

\* What the CPUs hold is a natural number, and depends only on the calls.
LEMMA TakenNat == FlowTypes => Taken \in Nat
  <1> SUFFICES ASSUME FlowTypes PROVE Taken \in Nat
    OBVIOUS
  <1>1. IsFiniteSet(Undecided) /\ Undecided \subseteq Cpus
    BY CpusAssumption, FS_Subset DEF Undecided
  <1>2. \A c \in Undecided : Lengths[c] \in Nat
    BY <1>1 DEF FlowTypes, Tasks, Lengths
  <1> QED
    BY <1>1, <1>2, SumNat DEF Taken

LEMMA TakenNatNext == FlowTypes' => Taken' \in Nat
  <1> SUFFICES ASSUME FlowTypes' PROVE Taken' \in Nat
    OBVIOUS
  <1>1. IsFiniteSet(Undecided') /\ Undecided' \subseteq Cpus
    BY CpusAssumption, FS_Subset DEF Undecided
  <1>2. \A c \in Undecided' : Lengths'[c] \in Nat
    BY <1>1 DEF FlowTypes, Tasks, Lengths
  <1> QED
    BY <1>1, <1>2, SumNat DEF Taken

\* A step of one CPU that is neither the failing take nor the giving back
\* leaves what the CPUs hold.
LEMMA TakenSame ==
    ASSUME FlowTypes, FlowTypes', NEW c \in Cpus, task[c].pc # "giveback", task'[c].pc # "giveback",
           \A d \in Cpus \ {c} : task'[d] = task[d]
    PROVE  Taken' = Taken
  <1>1. Undecided' = Undecided /\ IsFiniteSet(Undecided) /\ Undecided \subseteq Cpus \ {c}
    BY CpusAssumption, FS_Subset DEF Undecided
  <1>2. \A d \in Undecided : Lengths[d] \in Nat /\ Lengths'[d] = Lengths[d]
    BY <1>1 DEF FlowTypes, Tasks, Lengths
  <1> DEFINE f == Lengths
             g == Lengths'
             S == Undecided
  <1>3. SumFunctionOnSet(g, S) = SumFunctionOnSet(f, S)
    <2> HIDE DEF f, g, S
    <2> QED
      BY <1>1, <1>2, SumSame DEF f, g, S
  <1> QED
    BY <1>1, <1>3 DEF Taken

\* A take that fails adds the length of its packet to what the CPUs hold.
LEMMA TakenMore ==
    ASSUME FlowTypes, FlowTypes', NEW c \in Cpus, task[c].pc # "giveback", task'[c].pc = "giveback",
           task'[c].len = task[c].len, \A d \in Cpus \ {c} : task'[d] = task[d]
    PROVE  Taken' = Taken + task[c].len
  <1> DEFINE f == Lengths
             g == Lengths'
             S == Undecided
  <1>1. /\ Undecided' = S \cup {c} /\ c \notin S
        /\ IsFiniteSet(S) /\ S \subseteq Cpus
    BY CpusAssumption, FS_Subset DEF Undecided
  <1>2. \A d \in S \cup {c} : f[d] \in Nat /\ g[d] = f[d]
    BY <1>1 DEF FlowTypes, Tasks, Lengths
  <1>3. Taken' = SumFunctionOnSet(g, S \cup {c}) /\ Taken = SumFunctionOnSet(f, S)
    BY <1>1 DEF Taken
  <1>4. f[c] = task[c].len /\ f[c] \in Nat /\ Taken \in Nat
    BY <1>2, TakenNat DEF Lengths
  <1> HIDE DEF f, g, S
  <1>5. SumFunctionOnSet(g, S \cup {c}) = g[c] + SumFunctionOnSet(g, S)
    BY <1>1, <1>2, SumInsert
  <1>6. SumFunctionOnSet(g, S) = SumFunctionOnSet(f, S)
    BY <1>1, <1>2, SumSame
  <1> QED
    BY <1>2, <1>3, <1>4, <1>5, <1>6

\* Giving back takes it out again.
LEMMA TakenLess ==
    ASSUME FlowTypes, FlowTypes', NEW c \in Cpus, task[c].pc = "giveback", task'[c].pc # "giveback",
           \A d \in Cpus \ {c} : task'[d] = task[d]
    PROVE  Taken = Taken' + task[c].len
  <1> DEFINE f == Lengths
             g == Lengths'
             S == Undecided'
  <1>1. /\ Undecided = S \cup {c} /\ c \notin S
        /\ IsFiniteSet(S) /\ S \subseteq Cpus
    BY CpusAssumption, FS_Subset DEF Undecided
  <1>2. \A d \in S \cup {c} : f[d] \in Nat
    BY <1>1 DEF FlowTypes, Tasks, Lengths
  <1>3. \A d \in S : g[d] = f[d]
    BY <1>1 DEF FlowTypes, Tasks, Lengths
  <1>4. Taken = SumFunctionOnSet(f, S \cup {c}) /\ Taken' = SumFunctionOnSet(g, S)
    BY <1>1 DEF Taken
  <1>5. f[c] = task[c].len /\ f[c] \in Nat
    BY <1>2 DEF Lengths
  <1> HIDE DEF f, g, S
  <1>6. SumFunctionOnSet(f, S \cup {c}) = f[c] + SumFunctionOnSet(f, S)
    BY <1>1, <1>2, SumInsert
  <1>7. SumFunctionOnSet(g, S) = SumFunctionOnSet(f, S) /\ SumFunctionOnSet(f, S) \in Nat
    BY <1>1, <1>2, <1>3, SumSame, SumNat
  <1> QED
    BY <1>4, <1>5, <1>6, <1>7

\* Each access of consume_flow_tokens moves the count, the balance and what
\* the CPUs hold together.
LEMMA CreditStep ==
    ASSUME CreditInv, NEW c \in Cpus, ConsumeFlow(c)
    PROVE  CreditInv'
  <1>1. FlowTypes /\ FlowTypes' /\ credit \in Int /\ st.tokens = Wrap(credit - Taken)
    BY FlowTyped, LostIs DEF CreditInv
  <1>2. /\ task \in [Cpus -> Tasks] /\ st \in Bucket /\ st.tokens \in Nat
        /\ task[c] \in Tasks /\ task[c].len \in Nat /\ task[c].refill \in Nat /\ task[c].curr \in Nat
        /\ FLOW_BURST \in Nat
    BY <1>1, RatesAssumption DEF FlowTypes, Bucket, Tasks
  <1>3. Taken \in Nat /\ Taken' \in Nat
    BY <1>1, TakenNat, TakenNatNext
  <1>4. SUFFICES credit' \in Int /\ st'.tokens = Wrap(credit' - Taken')
    BY <1>1, LostIs DEF CreditInv
  <1>5. ASSUME NEW n \in Int, st'.tokens = Wrap(st.tokens + n), credit' \in Int,
               credit' - Taken' = (credit - Taken) + n
        PROVE  credit' \in Int /\ st'.tokens = Wrap(credit' - Taken')
    <2>1. Wrap(st.tokens + n) = Wrap((credit - Taken) + n)
      BY <1>1, <1>3, WrapShift
    <2> QED
      BY <1>5, <2>1
  <1>6. ASSUME LoadRefill(c) \/ SwapLastRefill(c) \/ CheckBurst(c)
        PROVE  credit' \in Int /\ st'.tokens = Wrap(credit' - Taken')
    <2>1. credit' = credit /\ st'.tokens = st.tokens
      BY <1>2, <1>6 DEF LoadRefill, SwapLastRefill, CheckBurst, Bucket
    <2>2. task[c].pc # "giveback" /\ task'[c].pc # "giveback" /\ \A d \in Cpus \ {c} : task'[d] = task[d]
      <3>1. CASE LoadRefill(c)
        BY <1>2, <3>1 DEF LoadRefill, Tasks
      <3>2. CASE SwapLastRefill(c)
        BY <1>2, <3>2 DEF SwapLastRefill, Goto, Tasks
      <3>3. CASE CheckBurst(c)
        BY <1>2, <3>3 DEF CheckBurst, Tasks
      <3> QED
        BY <1>6, <3>1, <3>2, <3>3
    <2> QED
      BY <1>1, <2>1, <2>2, TakenSame
  <1>7. CASE MintTokens(c)
    <2>1. /\ credit' = credit + task[c].refill
          /\ st'.tokens = Wrap(st.tokens + task[c].refill)
      BY <1>2, <1>7 DEF MintTokens, Bucket
    <2>2. task[c].pc # "giveback" /\ task'[c].pc # "giveback" /\ \A d \in Cpus \ {c} : task'[d] = task[d]
      BY <1>2, <1>7 DEF MintTokens, Goto, Tasks
    <2>3. Taken' = Taken
      BY <1>1, <2>2, TakenSame
    <2> QED
      BY <1>1, <1>2, <1>3, <1>5, <2>1, <2>3
  <1>8. CASE ClampTokens(c)
    <2>1. task[c].pc # "giveback" /\ task'[c].pc # "giveback" /\ \A d \in Cpus \ {c} : task'[d] = task[d]
      BY <1>2, <1>8 DEF ClampTokens, Goto, Tasks
    <2>2. Taken' = Taken
      BY <1>1, <2>1, TakenSame
    <2>3. CASE st.tokens = task[c].curr
      <3>1. st'.tokens = FLOW_BURST /\ credit' = credit + FLOW_BURST - task[c].curr
        BY <1>2, <1>8, <2>3 DEF ClampTokens, Bucket
      <3>2. Wrap(FLOW_BURST) = FLOW_BURST
        <4>1. FLOW_BURST < U64 /\ -U64 < FLOW_BURST
          BY <1>2, WordAssumption, RatesAssumption, TimeAssumption
        <4> QED
          BY <1>2, <4>1, WrapExact
      <3>3. FLOW_BURST - task[c].curr \in Int
        BY <1>2
      <3>4. st.tokens + (FLOW_BURST - task[c].curr) = FLOW_BURST
        BY <1>2, <2>3
      <3>5. credit' \in Int /\ credit' - Taken' = (credit - Taken) + (FLOW_BURST - task[c].curr)
        BY <1>1, <1>2, <1>3, <2>2, <3>1
      <3> QED
        BY <1>5, <3>1, <3>2, <3>3, <3>4, <3>5
    <2>4. CASE st.tokens # task[c].curr
      <3>1. st' = st /\ credit' = credit
        BY <1>8, <2>4 DEF ClampTokens
      <3> QED
        BY <1>1, <2>2, <3>1
    <2> QED
      BY <2>3, <2>4
  <1>9. CASE TakeTokens(c)
    <2> DEFINE n == -task[c].len
    <2>1. /\ st'.tokens = Wrap(st.tokens + n) /\ n \in Int
      <3>1. st.tokens - task[c].len = st.tokens + n /\ n \in Int
        BY <1>2
      <3> HIDE DEF n
      <3> QED
        BY <1>2, <1>9, <3>1 DEF TakeTokens, Bucket
    <2>2. CASE st.tokens >= task[c].len
      <3>1. credit' = credit - task[c].len /\ task' = [task EXCEPT ![c] = IdleTask] /\ task[c].pc = "take"
        BY <1>2, <1>9, <2>2 DEF TakeTokens
      <3>2. task[c].pc # "giveback" /\ task'[c].pc # "giveback" /\ \A d \in Cpus \ {c} : task'[d] = task[d]
        BY <1>2, <3>1, IdleTaskTyped
      <3>3. Taken' = Taken
        BY <1>1, <3>2, TakenSame
      <3>4. credit' \in Int /\ credit' - Taken' = (credit - Taken) + n
        BY <1>1, <1>2, <1>3, <3>1, <3>3
      <3> QED
        BY <1>5, <2>1, <3>4
    <2>3. CASE ~(st.tokens >= task[c].len)
      <3>1. credit' = credit /\ task' = [task EXCEPT ![c].pc = "giveback"] /\ task[c].pc = "take"
        BY <1>2, <1>9, <2>3 DEF TakeTokens, Goto
      <3>2. /\ task[c].pc # "giveback" /\ task'[c].pc = "giveback" /\ task'[c].len = task[c].len
            /\ \A d \in Cpus \ {c} : task'[d] = task[d]
        BY <1>2, <3>1 DEF Tasks
      <3>3. Taken' = Taken + task[c].len
        BY <1>1, <3>2, TakenMore
      <3>4. credit' \in Int /\ credit' - Taken' = (credit - Taken) + n
        BY <1>1, <1>2, <1>3, <3>1, <3>3
      <3> QED
        BY <1>5, <2>1, <3>4
    <2> QED
      BY <2>2, <2>3
  <1>10. CASE GiveBack(c)
    <2>1. /\ st'.tokens = Wrap(st.tokens + task[c].len) /\ credit' = credit
          /\ task' = [task EXCEPT ![c] = IdleTask] /\ task[c].pc = "giveback"
      BY <1>2, <1>10 DEF GiveBack, Bucket
    <2>2. task'[c].pc # "giveback" /\ \A d \in Cpus \ {c} : task'[d] = task[d]
      BY <1>2, <2>1, IdleTaskTyped
    <2>3. Taken = Taken' + task[c].len
      BY <1>1, <2>1, <2>2, TakenLess
    <2>4. credit' \in Int /\ credit' - Taken' = (credit - Taken) + task[c].len
      BY <1>1, <1>2, <1>3, <2>1, <2>3
    <2> QED
      BY <1>2, <1>5, <2>1, <2>4
  <1> QED
    BY <1>6, <1>7, <1>8, <1>9, <1>10 DEF ConsumeFlow

LEMMA CreditInit == SharedInit => CreditInv
  <1> SUFFICES ASSUME SharedInit PROVE CreditInv
    OBVIOUS
  <1>1. FlowTypes
    BY FlowInit DEF FlowInv
  <1>2. credit = FLOW_BURST /\ st.tokens = FLOW_BURST /\ task = [c \in Cpus |-> IdleTask]
    BY DEF SharedInit, Init
  <1>3. Undecided = {}
    BY <1>2, IdleTaskTyped DEF Undecided
  <1>4. Taken = 0
    BY <1>3, SumEmpty DEF Taken
  <1>5. FLOW_BURST \in Nat /\ FLOW_BURST < U64 /\ -U64 < FLOW_BURST
    BY WordAssumption, RatesAssumption, TimeAssumption
  <1>6. Wrap(FLOW_BURST) = FLOW_BURST
    BY <1>5, WrapExact
  <1>7. credit - Taken = FLOW_BURST /\ credit \in Int
    BY <1>2, <1>4, <1>5
  <1> QED
    BY <1>1, <1>2, <1>6, <1>7, LostIs DEF CreditInv

LEMMA CreditNext ==
    ASSUME CreditInv, FlowInv', InScenario, [SharedNext]_sharedVars
    PROVE  CreditInv'
  <1>0. /\ scenario.cpus \subseteq Cpus /\ FlowTypes /\ FlowTypes' /\ credit \in Int
        /\ task \in [Cpus -> Tasks]
    BY ScenarioAssumption DEF InScenario, CreditInv, FlowInv, FlowTypes
  <1>1. CASE UNCHANGED <<st, task, credit>>
    <2>1. NoLostUpdate' <=> NoLostUpdate
      BY <1>1 DEF NoLostUpdate
    <2> QED
      BY <1>0, <1>1, <2>1 DEF CreditInv
  <1>2. ASSUME NEW c \in scenario.cpus, ConsumeFlow(c) PROVE CreditInv'
    BY <1>0, <1>2, CreditStep
  <1>3. ASSUME NEW c \in scenario.cpus, NEW len \in Lens, Enter(c, len) PROVE CreditInv'
    <2>1. /\ task' = [task EXCEPT ![c] = [IdleTask EXCEPT !.pc = "load", !.len = len, !.now = clock]]
          /\ task[c].pc = "idle" /\ UNCHANGED <<st, credit>>
      BY <1>3 DEF Enter, SampleClock
    <2>2. c \in Cpus /\ task'[c].pc # "giveback" /\ \A d \in Cpus \ {c} : task'[d] = task[d]
      BY <1>0, <2>1, IdleTaskTyped DEF Tasks
    <2>3. Taken' = Taken
      BY <1>0, <2>1, <2>2, TakenSame
    <2> QED
      BY <1>0, <2>1, <2>3, LostIs DEF CreditInv
  <1> QED
    BY <1>1, <1>2, <1>3 DEF SharedNext, Charge, Leave, SharedTick, Tick, SharedDone, sharedVars, vars

----------------------------------------------------------------------------
\* However many CPUs share the packet bucket and whatever they overwrite of
\* each other's updates, its count never wraps below zero: it is at most the
\* configured limit plus all that was refilled (policy.h:177-199).
THEOREM PpsSafe == SharedSpec => []PpsNeverWraps
  <1>1. SharedInit => Inv /\ InScenario
    BY InvInit DEF SharedInit, InScenario
  <1>2. Inv /\ InScenario /\ [SharedNext]_sharedVars => Inv' /\ InScenario'
    BY InvNext, ScenarioNext DEF InScenario
  <1>3. Inv => PpsNeverWraps
    BY DEF Inv, Paid, PpsNeverWraps, Pps!PpsNoWrap
  <1> QED
    BY <1>1, <1>2, <1>3, PTL DEF SharedSpec

\* While one CPU serves the flow, its unlocked bucket, updated access by
\* access with the packet bucket in front of it, implements a bucket charged
\* in one step (policy.h:148-175), for every rate, burst, length and word.
THEOREM SerialIsAtomic == SharedSpec => AtomicWhenSerial
  <1>1. SharedInit => FlowInv /\ InScenario /\ Atomic!Init
    BY FlowInit DEF SharedInit, InScenario
  <1>2. FlowInv /\ InScenario /\ [SharedNext]_sharedVars
          => FlowInv' /\ InScenario' /\ (Serial => [Atomic!Next]_(Atomic!vars))
    BY FlowNext, ScenarioNext
  <1> QED
    BY <1>1, <1>2, PTL DEF SharedSpec, AtomicWhenSerial

\* While one CPU serves the flow, the bytes that pass never exceed its burst
\* plus its rate times the time (policy.h:148-175).
THEOREM FlowRateHolds == SharedSpec => []FlowLimitSerial
  <1>1. SharedInit => FlowInv /\ InScenario
    BY FlowInit DEF SharedInit, InScenario
  <1>2. FlowInv /\ InScenario /\ [SharedNext]_sharedVars => FlowInv' /\ InScenario'
    BY FlowNext, ScenarioNext
  <1> QED
    BY <1>1, <1>2, FlowLimited, PTL DEF SharedSpec

\* While one CPU receives packets, those that get past the packet bucket never
\* exceed its limit plus the limit times the time (policy.h:177-199).
THEOREM PpsRateHolds == SharedSpec => []PpsLimitSerial
  <1>1. SharedInit => Inv /\ PpsInv /\ InScenario
    BY InvInit, PpsInitial DEF SharedInit, InScenario
  <1>2. Inv /\ PpsInv /\ InScenario /\ [SharedNext]_sharedVars => Inv' /\ PpsInv' /\ InScenario'
    BY InvNext, PpsNext, ScenarioNext DEF InScenario
  <1>3. PpsInv => PpsLimitSerial
    BY DEF PpsInv, PpsLimitSerial, Pps!PpsBounded
  <1> QED
    BY <1>1, <1>2, <1>3, PTL DEF SharedSpec

\* However many CPUs charge the flow's bucket at the same time, no update of
\* its token count is lost (policy.h:148-175): the count is the burst plus all
\* that was minted, less what was clamped, passed, or is still held by calls
\* that have to give it back, modulo the word.
THEOREM NoUpdateLost == SharedSpec => []NoLostUpdate
  <1>1. SharedInit => FlowInv /\ CreditInv /\ InScenario
    BY FlowInit, CreditInit DEF SharedInit, InScenario
  <1>2. FlowInv /\ CreditInv /\ InScenario /\ [SharedNext]_sharedVars
          => FlowInv' /\ CreditInv' /\ InScenario'
    BY FlowNext, CreditNext, ScenarioNext
  <1>3. CreditInv => NoLostUpdate
    BY DEF CreditInv
  <1> QED
    BY <1>1, <1>2, <1>3, PTL DEF SharedSpec
============================================================================
