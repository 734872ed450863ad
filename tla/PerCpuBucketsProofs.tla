------------------------- MODULE PerCpuBucketsProofs -------------------------
(***************************************************************************)
(* The admission envelope of the per-CPU token buckets, for every rate,    *)
(* burst, packet length, word size and length of time.                     *)
(***************************************************************************)
EXTENDS PerCpuBuckets, TLAPS

\* A quotient times its divisor is at most the dividend.
LEMMA DivTimes ==
    ASSUME NEW y \in Nat, NEW d \in Nat \ {0}
    PROVE  /\ y \div d \in Nat
           /\ d * (y \div d) <= y
  OBVIOUS

\* Multiplication by a natural number distributes and is monotone.
LEMMA Scale ==
    ASSUME NEW k \in Nat, NEW x \in Nat, NEW y \in Nat
    PROVE  /\ k * x \in Nat
           /\ k * (x + y) = k * x + k * y
           /\ x <= y => k * x <= k * y
  <1>1. k * x \in Nat /\ k * (x + y) = k * x + k * y
    OBVIOUS
  <1>2. ASSUME x <= y PROVE k * x <= k * y
    <2>1. PICK d \in Nat : y = x + d
      BY <1>2
    <2>2. k * y = k * x + k * d /\ k * d \in Nat /\ k * x \in Nat
      BY <2>1
    <2> QED
      BY <2>2
  <1> QED
    BY <1>1, <1>2

\* A remainder is a natural number no larger than the number divided.
LEMMA ModAtMost ==
    ASSUME NEW y \in Nat, NEW d \in Nat \ {0}
    PROVE  /\ y % d \in Nat
           /\ y % d <= y
  OBVIOUS

\* Spending moves tokens from the bucket to the account, or changes nothing.
LEMMA SpendAccount ==
    ASSUME NEW b \in Bucket, NEW n \in Nat
    PROVE  /\ Spend(b, n).bucket \in Bucket
           /\ Spend(b, n).bucket.last = b.last
           /\ Spend(b, n).bucket.tokens <= b.tokens
           /\ Spend(b, n).pass => Spend(b, n).bucket.tokens + n = b.tokens
           /\ ~Spend(b, n).pass => Spend(b, n).bucket = b
  <1>1. b.tokens \in Nat /\ b.last \in Nat /\ b = [tokens |-> b.tokens, last |-> b.last]
    BY DEF Bucket
  <1>2. CASE b.tokens >= n
    <2>1. Spend(b, n).pass /\ Spend(b, n).bucket = [b EXCEPT !.tokens = @ - n]
      BY <1>2 DEF Spend
    <2>2. [b EXCEPT !.tokens = @ - n] = [tokens |-> b.tokens - n, last |-> b.last]
      BY <1>1
    <2>3. b.tokens - n \in Nat
      BY <1>1, <1>2
    <2> QED
      BY <1>1, <2>1, <2>2, <2>3 DEF Bucket
  <1>3. CASE ~(b.tokens >= n)
    <2>1. ~Spend(b, n).pass /\ Spend(b, n).bucket = b
      BY <1>3 DEF Spend
    <2> QED
      BY <1>1, <2>1 DEF Bucket
  <1> QED
    BY <1>2, <1>3

\* Division with remainder.
LEMMA DivMod ==
    ASSUME NEW y \in Nat, NEW d \in Nat \ {0}, NEW q \in Int, NEW m \in Int,
           q = y \div d, m = y % d
    PROVE  y = d * q + m
  <1>1. m = y - d * q
    OBVIOUS
  <1>2. PICK p \in Int : p = d * q
    OBVIOUS
  <1>3. m = y - p
    BY <1>1, <1>2, Zenon
  <1>4. y = p + m
    BY <1>3
  <1> QED
    BY <1>2, <1>4, Zenon

\* Adding r to a number adds at most r to its remainder.
LEMMA ModStep ==
    ASSUME NEW x \in Nat, NEW r \in Nat, NEW m \in Nat \ {0}
    PROVE  (x + r) % m <= (x % m) + r
  <1>1. PICK y \in Nat : y = x % m /\ y < m
    OBVIOUS
  <1>2. PICK z \in Nat : z = (x + r) % m /\ z < m
    OBVIOUS
  <1>3. PICK p \in Nat : p = x \div m
    BY DivTimes
  <1>4. PICK q \in Nat : q = (x + r) \div m
    BY DivTimes
  <1>5. x = m * p + y
    BY <1>1, <1>3, DivMod
  <1>6. x + r = m * q + z
    BY <1>2, <1>4, DivMod
  <1>7. PICK mp \in Nat, mq \in Nat : mp = m * p /\ mq = m * q
    BY Scale
  <1>8. CASE p <= q
    <2>1. mp <= mq
      BY <1>7, <1>8, Scale
    <2> QED
      BY <1>1, <1>2, <1>5, <1>6, <1>7, <2>1
  <1>9. CASE ~(p <= q)
    <2>1. q + 1 \in Nat /\ q + 1 <= p
      BY <1>9
    <2>2. m * (q + 1) <= m * p
      BY <2>1, Scale
    <2>3. m * (q + 1) = m * q + m
      OBVIOUS
    <2>4. mq + m <= mp
      BY <1>7, <2>2, <2>3
    <2> QED
      BY <1>1, <1>2, <1>5, <1>6, <1>7, <2>4
  <1> QED
    BY <1>8, <1>9

\* Refilling turns what has been earned into tokens and loses or gains
\* nothing but what the burst cuts off, even when the product delta * rate
\* wraps (policy.h:126-135); less than a token is left unturned.
LEMMA RefilledEarned ==
    ASSUME NEW b \in Bucket, NEW now \in Nat, NEW rate \in Nat, NEW cap \in Nat,
           NEW f, f = Refilled(b, now, rate, cap),
           b.last <= now, b.tokens <= cap
    PROVE  /\ f \in Bucket /\ f.tokens <= cap /\ f.last \in b.last..now
           /\ ((now - b.last) * rate) % U64 \in Nat
           /\ ((now - f.last) * rate) % U64 \in 0..(NS_PER_SEC - 1)
           /\ NS_PER_SEC * f.tokens + (((now - f.last) * rate) % U64)
                <= NS_PER_SEC * b.tokens + (((now - b.last) * rate) % U64)
  <1>1. b.tokens \in Nat /\ b.last \in Nat /\ now - b.last \in Nat
    BY DEF Bucket
  <1>2. (now - b.last) * rate \in Nat
    BY <1>1, Scale
  <1>3. PICK e \in Nat : e = ((now - b.last) * rate) % U64
    BY <1>2, ModAtMost, RatesAssumption
  <1>4. PICK r \in Nat : r = e \div NS_PER_SEC /\ NS_PER_SEC * r <= e
    BY <1>3, DivTimes, TimeAssumption
  <1>5. Refill(now - b.last, rate) = r
    BY <1>3, <1>4 DEF Refill
  <1>6. CASE ~(r > 0)
    <2>1. f = b
      BY <1>5, <1>6 DEF Refilled
    <2>2. r = 0
      BY <1>6
    <2>3. e = NS_PER_SEC * r + (e % NS_PER_SEC) /\ e % NS_PER_SEC \in 0..(NS_PER_SEC - 1)
      BY <1>4, DivMod, TimeAssumption
    <2>4. NS_PER_SEC * r = 0
      BY <2>2, TimeAssumption
    <2>5. e \in 0..(NS_PER_SEC - 1)
      BY <2>3, <2>4
    <2> QED
      BY <1>1, <1>3, <2>1, <2>5, TimeAssumption
  <1>7. CASE r > 0
    <2>1. PICK t : t = AtMost(b.tokens + r, cap)
      OBVIOUS
    <2>2. f = [tokens |-> t, last |-> now]
      BY <1>5, <1>7, <2>1 DEF Refilled
    <2>3. t \in Nat /\ t <= cap /\ t <= b.tokens + r
      BY <1>1, <2>1 DEF AtMost
    <2>4. NS_PER_SEC * t <= NS_PER_SEC * b.tokens + NS_PER_SEC * r
      <3>1. NS_PER_SEC * t <= NS_PER_SEC * (b.tokens + r)
        BY <1>1, <2>3, Scale, TimeAssumption
      <3> QED
        BY <1>1, <3>1, Scale, TimeAssumption
    <2>5. ((now - f.last) * rate) % U64 = 0
      <3>1. now - f.last = 0 /\ 0 * rate = 0 /\ 0 % U64 = 0
        BY <2>2, RatesAssumption
      <3> QED
        BY <3>1
    <2>6. f.tokens = t /\ f.last = now /\ f \in Bucket
      BY <2>2, <2>3 DEF Bucket
    <2>7. /\ NS_PER_SEC * t \in Int /\ NS_PER_SEC * r \in Int
          /\ NS_PER_SEC * b.tokens \in Int /\ NS_PER_SEC - 1 \in Nat
      BY <1>1, <2>3, TimeAssumption
    <2>8. NS_PER_SEC * t + 0 <= NS_PER_SEC * b.tokens + e
      BY <1>4, <2>4, <2>7
    <2> QED
      BY <1>1, <1>3, <2>3, <2>5, <2>6, <2>7, <2>8
  <1> QED
    BY <1>6, <1>7

\* Refilling the fuse keeps its account balanced; the remainder of the last
\* interval stays on the clock.
LEMMA FuseRefilledAccount ==
    ASSUME NEW b \in Bucket, NEW now \in Nat, NEW s \in Nat, NEW since \in Nat, NEW K \in Nat,
           b.last <= now, since <= b.last, b.tokens <= FUSE_INIT_TOKEN,
           REFILL_INTERVAL * (s + b.tokens) <= K + TOKENS_TO_ADD * (b.last - since)
    PROVE  /\ FuseRefilled(b, now) \in Bucket
           /\ FuseRefilled(b, now).tokens <= FUSE_INIT_TOKEN
           /\ FuseRefilled(b, now).last \in b.last..now
           /\ REFILL_INTERVAL * (s + FuseRefilled(b, now).tokens)
                <= K + TOKENS_TO_ADD * (FuseRefilled(b, now).last - since)
  <1> DEFINE delta == now - b.last
             q     == delta \div REFILL_INTERVAL
             m     == delta % REFILL_INTERVAL
             r     == q * TOKENS_TO_ADD
             t     == AtMost(b.tokens + r, FUSE_INIT_TOKEN)
             l     == now - m
  <1>1. b.tokens \in Nat /\ b.last \in Nat /\ delta \in Nat
    BY DEF Bucket
  <1>2. CASE ~(delta >= REFILL_INTERVAL)
    BY <1>1, <1>2 DEF FuseRefilled
  <1>3. CASE delta >= REFILL_INTERVAL
    <2>1. FuseRefilled(b, now) = [tokens |-> t, last |-> l]
      BY <1>3 DEF FuseRefilled
    <2>a. now = b.last + delta
      BY <1>1
    <2> HIDE DEF delta
    <2>b. q \in Nat /\ m \in Nat /\ m <= delta
      BY <1>1, DivTimes, ModAtMost, TimeAssumption
    <2>c. q = delta \div REFILL_INTERVAL /\ m = delta % REFILL_INTERVAL
      OBVIOUS
    <2> HIDE DEF q, m
    <2>2. q \in Nat /\ m \in Nat /\ m <= delta /\ delta = REFILL_INTERVAL * q + m
      BY <1>1, <2>b, <2>c, DivMod, TimeAssumption
    <2>3. r \in Nat /\ REFILL_INTERVAL * q \in Nat
      BY <2>2, Scale, RatesAssumption, TimeAssumption
    <2>4. REFILL_INTERVAL * r = TOKENS_TO_ADD * (REFILL_INTERVAL * q)
      BY <2>2, RatesAssumption, TimeAssumption
    <2>5. l \in Nat /\ l = b.last + REFILL_INTERVAL * q /\ l <= now
      BY <1>1, <2>a, <2>2, <2>3
    <2> HIDE DEF r, l
    <2>6. t \in Nat /\ t <= FUSE_INIT_TOKEN /\ t <= b.tokens + r
      BY <1>1, <2>3, RatesAssumption DEF AtMost
    <2> HIDE DEF t
    <2>7. REFILL_INTERVAL * (s + t) <= REFILL_INTERVAL * (s + b.tokens) + REFILL_INTERVAL * r
      <3>1. s + t \in Nat /\ s + b.tokens \in Nat /\ s + t <= (s + b.tokens) + r
        BY <1>1, <2>3, <2>6
      <3>2. REFILL_INTERVAL * (s + t) <= REFILL_INTERVAL * ((s + b.tokens) + r)
        BY <2>3, <3>1, Scale, TimeAssumption
      <3> QED
        BY <2>3, <3>1, <3>2, Scale, TimeAssumption
    <2>8. TOKENS_TO_ADD * (b.last - since) + TOKENS_TO_ADD * (REFILL_INTERVAL * q)
             = TOKENS_TO_ADD * (l - since)
      <3>1. b.last - since \in Nat /\ l - since = (b.last - since) + REFILL_INTERVAL * q
        BY <1>1, <2>3, <2>5
      <3> QED
        BY <2>3, <3>1, Scale, RatesAssumption
    <2>9. /\ TOKENS_TO_ADD * (b.last - since) \in Int
          /\ TOKENS_TO_ADD * (REFILL_INTERVAL * q) \in Int
          /\ TOKENS_TO_ADD * (l - since) \in Int
          /\ REFILL_INTERVAL * (s + t) \in Int
          /\ REFILL_INTERVAL * (s + b.tokens) \in Int
          /\ REFILL_INTERVAL * r \in Int
      BY <1>1, <2>3, <2>5, <2>6, RatesAssumption, TimeAssumption
    <2>10. REFILL_INTERVAL * (s + t) <= K + TOKENS_TO_ADD * (l - since)
      BY <2>4, <2>7, <2>8, <2>9
    <2> QED
      BY <1>1, <2>1, <2>3, <2>5, <2>6, <2>10 DEF Bucket
  <1> QED
    BY <1>2, <1>3

------------------------------------------------------------------------------
Inv == TypeOK /\ GlobalAccount /\ FuseAccount

\* A call of consume_global_tokens on one CPU.  The first byte of the stretch
\* finds no more than the burst and less than a token earned; a later one
\* finds the account balanced.
LEMMA GlobalStep ==
    ASSUME Inv, NEW c \in Cpus, NEW len \in Lens, GlobalPacket(c, len)
    PROVE  Inv'
  <1> DEFINE r == GlobalTokens(gb[c], clock, len)
             u == gUse[c] + Paid(c, r.pass, len)
             B == NS_PER_SEC * GLOBAL_BURST + GLOBAL_RATE * (clock - from) + (NS_PER_SEC - 1)
             e == ((clock - r.bucket.last) * GLOBAL_RATE) % U64
  <1>1. /\ len \in Nat /\ clock \in Nat \ {0} /\ from \in Nat /\ gb[c] \in Bucket
        /\ gb[c].tokens \in Nat /\ gb[c].last \in Nat /\ gUse[c] \in Nat
        /\ gb[c].last <= clock /\ gb[c].tokens <= GLOBAL_BURST
    BY LensAssumption, MaxClockAssumption DEF Inv, TypeOK, Bucket
  <1>2. gUse[c] > 0 => /\ gb[c].last # 0 /\ clock >= from
                       /\ NS_PER_SEC * (gUse[c] + gb[c].tokens) + Earned(c) <= B
    BY DEF Inv, GlobalAccount
  <1>3. /\ r.bucket \in Bucket /\ u \in Nat
        /\ r.bucket.last <= clock /\ r.bucket.tokens <= GLOBAL_BURST
        /\ u > 0 => /\ r.bucket.last # 0 /\ clock >= from
                    /\ NS_PER_SEC * (u + r.bucket.tokens) + e <= B
    <2>1. CASE gb[c].last = 0
      <3>1. r.bucket = [tokens |-> GLOBAL_BURST, last |-> clock]
        BY <2>1 DEF GlobalTokens
      <3>2. u = 0
        BY <1>1, <1>2, <2>1 DEF Paid
      <3> HIDE DEF u, r
      <3> QED
        BY <1>1, <3>1, <3>2, RatesAssumption DEF Bucket
    <2>2. CASE gb[c].last # 0
      <3>1. PICK f : f = Refilled(gb[c], clock, GLOBAL_RATE, GLOBAL_BURST)
        OBVIOUS
      <3>2. /\ f \in Bucket /\ f.tokens <= GLOBAL_BURST /\ f.last \in gb[c].last..clock
            /\ Earned(c) \in Nat
            /\ ((clock - f.last) * GLOBAL_RATE) % U64 \in 0..(NS_PER_SEC - 1)
            /\ NS_PER_SEC * f.tokens + (((clock - f.last) * GLOBAL_RATE) % U64)
                 <= NS_PER_SEC * gb[c].tokens + Earned(c)
        <4>1. GLOBAL_RATE \in Nat /\ GLOBAL_BURST \in Nat /\ clock \in Nat
          BY <1>1, RatesAssumption
        <4>2. PICK b \in Bucket : b = gb[c]
          BY <1>1
        <4>3. f = Refilled(b, clock, GLOBAL_RATE, GLOBAL_BURST) /\ b.last <= clock /\ b.tokens <= GLOBAL_BURST
          BY <1>1, <3>1, <4>2
        <4>4. /\ f \in Bucket /\ f.tokens <= GLOBAL_BURST /\ f.last \in b.last..clock
              /\ ((clock - b.last) * GLOBAL_RATE) % U64 \in Nat
              /\ ((clock - f.last) * GLOBAL_RATE) % U64 \in 0..(NS_PER_SEC - 1)
              /\ NS_PER_SEC * f.tokens + (((clock - f.last) * GLOBAL_RATE) % U64)
                   <= NS_PER_SEC * b.tokens + (((clock - b.last) * GLOBAL_RATE) % U64)
          BY <4>1, <4>3, RefilledEarned
        <4> QED
          BY <4>2, <4>4 DEF Earned
      <3>3. r = Spend(f, len)
        BY <2>2, <3>1 DEF GlobalTokens
      <3>4. u = gUse[c] + (IF r.pass /\ clock >= from THEN len ELSE 0)
        BY <2>2 DEF Paid
      <3> HIDE DEF r, u
      <3>5. f.tokens \in Nat /\ f.last \in Nat /\ f.last # 0
        BY <1>1, <2>2, <3>2 DEF Bucket
      <3>6. /\ r.bucket \in Bucket /\ r.bucket.last = f.last /\ r.bucket.tokens <= f.tokens
            /\ r.pass => r.bucket.tokens + len = f.tokens
        BY <1>1, <3>2, <3>3, SpendAccount
      <3>7. r.bucket.tokens \in Nat
        BY <3>6 DEF Bucket
      <3>8. u \in Nat /\ (u > 0 => clock >= from) /\ u + r.bucket.tokens <= gUse[c] + f.tokens
        <4>1. CASE r.pass /\ clock >= from
          <5>1. r.bucket.tokens + len = f.tokens /\ u = gUse[c] + len
            BY <3>4, <3>6, <4>1, Zenon
          <5> QED
            BY <1>1, <3>5, <3>7, <4>1, <5>1
        <4>2. CASE ~(r.pass /\ clock >= from)
          <5>1. u = gUse[c] + 0
            BY <3>4, <4>2, Zenon
          <5>2. gUse[c] > 0 => clock >= from
            BY <1>2, Zenon
          <5> QED
            BY <1>1, <3>5, <3>6, <3>7, <5>1, <5>2
        <4> QED
          BY <4>1, <4>2
      <3>9. PICK d \in 0..(NS_PER_SEC - 1) :
              d = e /\ d = ((clock - f.last) * GLOBAL_RATE) % U64
        BY <3>2, <3>6
      <3> HIDE DEF e
      <3>10. NS_PER_SEC * (u + r.bucket.tokens) <= NS_PER_SEC * gUse[c] + NS_PER_SEC * f.tokens
        <4>1. NS_PER_SEC * (u + r.bucket.tokens) <= NS_PER_SEC * (gUse[c] + f.tokens)
          BY <1>1, <3>5, <3>7, <3>8, Scale, TimeAssumption
        <4> QED
          BY <1>1, <3>5, <4>1, Scale, TimeAssumption
      <3>11. /\ NS_PER_SEC * (u + r.bucket.tokens) \in Nat /\ NS_PER_SEC * gUse[c] \in Nat
             /\ NS_PER_SEC * f.tokens \in Nat /\ NS_PER_SEC * gb[c].tokens \in Nat
             /\ NS_PER_SEC * GLOBAL_BURST \in Nat
             /\ NS_PER_SEC * f.tokens <= NS_PER_SEC * GLOBAL_BURST
             /\ NS_PER_SEC \in Nat
        BY <1>1, <3>2, <3>5, <3>7, <3>8, Scale, TimeAssumption, RatesAssumption
      <3>12. clock >= from => GLOBAL_RATE * (clock - from) \in Nat
        BY <1>1, Scale, RatesAssumption
      <3>13. ASSUME u > 0
             PROVE  NS_PER_SEC * (u + r.bucket.tokens) + e <= B
        <4>1. CASE gUse[c] = 0
          <5>1. NS_PER_SEC * gUse[c] = 0
            BY <4>1, <3>11
          <5> QED
            BY <3>8, <3>9, <3>10, <3>11, <3>12, <3>13, <5>1
        <4>2. CASE gUse[c] > 0
          <5>1. NS_PER_SEC * (gUse[c] + gb[c].tokens)
                  = NS_PER_SEC * gUse[c] + NS_PER_SEC * gb[c].tokens
            BY <1>1, Scale, TimeAssumption
          <5>2. PICK b \in Int : b = B
            BY <1>2, <3>11, <3>12, <4>2
          <5> HIDE DEF B
          <5> QED
            BY <1>2, <3>2, <3>9, <3>10, <3>11, <4>2, <5>1, <5>2
        <4> QED
          BY <1>1, <4>1, <4>2
      <3> QED
        BY <1>1, <3>2, <3>5, <3>6, <3>7, <3>8, <3>13, RatesAssumption
    <2> QED
      BY <2>1, <2>2
  <1>4. /\ gb' = [gb EXCEPT ![c] = r.bucket] /\ gUse' = [gUse EXCEPT ![c] = u]
        /\ clock' = clock /\ from' = from /\ fuse' = fuse /\ fUse' = fUse
    BY DEF GlobalPacket
  <1> HIDE DEF r, u
  <1>5. GlobalAccount'
    BY <1>3, <1>4 DEF Inv, TypeOK, GlobalAccount, Earned
  <1> QED
    BY <1>3, <1>4, <1>5 DEF Inv, TypeOK, FuseAccount

\* A call of trigger_fuse_ratelimit on one CPU.
LEMMA FuseStep ==
    ASSUME Inv, NEW c \in Cpus, FusePacket(c)
    PROVE  Inv'
  <1> DEFINE r == FuseToken(fuse[c], clock)
             u == Charged(fUse[c], fuse[c], r.pass, 1)
  <1>1. /\ clock \in Nat \ {0} /\ fuse[c] \in Bucket /\ fUse[c] \in Usage
        /\ fuse[c].tokens \in Nat /\ fuse[c].last \in Nat
        /\ fUse[c].spent \in Nat /\ fUse[c].since \in Nat
        /\ fuse[c].last <= clock /\ fUse[c].since <= fuse[c].last
        /\ fuse[c].tokens <= FUSE_INIT_TOKEN
        /\ REFILL_INTERVAL * (fUse[c].spent + fuse[c].tokens)
             <= REFILL_INTERVAL * FUSE_INIT_TOKEN + TOKENS_TO_ADD * (fuse[c].last - fUse[c].since)
    BY MaxClockAssumption DEF Inv, TypeOK, FuseAccount, Bucket, Usage
  <1>2. REFILL_INTERVAL * FUSE_INIT_TOKEN \in Nat
    BY Scale, TimeAssumption, RatesAssumption
  <1>3. /\ r.bucket \in Bucket /\ u \in Usage
        /\ r.bucket.last <= clock /\ u.since <= r.bucket.last
        /\ r.bucket.tokens <= FUSE_INIT_TOKEN
        /\ REFILL_INTERVAL * (u.spent + r.bucket.tokens)
             <= REFILL_INTERVAL * FUSE_INIT_TOKEN + TOKENS_TO_ADD * (r.bucket.last - u.since)
    <2>1. CASE fuse[c].last = 0
      <3>1. r.bucket = [tokens |-> FUSE_INIT_TOKEN, last |-> clock]
        BY <2>1 DEF FuseToken
      <3>2. u = [spent |-> 0, since |-> clock]
        BY <2>1 DEF Charged
      <3>3. /\ clock - clock = 0 /\ TOKENS_TO_ADD * 0 = 0
            /\ 0 + FUSE_INIT_TOKEN = FUSE_INIT_TOKEN
        BY <1>1, RatesAssumption
      <3> QED
        BY <1>1, <1>2, <3>1, <3>2, <3>3, RatesAssumption DEF Bucket, Usage
    <2>2. CASE fuse[c].last # 0
      <3> DEFINE f == FuseRefilled(fuse[c], clock)
      <3>1. /\ f \in Bucket /\ f.tokens <= FUSE_INIT_TOKEN /\ f.last \in fuse[c].last..clock
            /\ REFILL_INTERVAL * (fUse[c].spent + f.tokens)
                 <= REFILL_INTERVAL * FUSE_INIT_TOKEN + TOKENS_TO_ADD * (f.last - fUse[c].since)
        BY <1>1, <1>2, FuseRefilledAccount
      <3>2. r = Spend(f, 1)
        BY <2>2 DEF FuseToken
      <3> HIDE DEF f, r
      <3>3. f.tokens \in Nat /\ f.last \in Nat
        BY <3>1 DEF Bucket
      <3>4. /\ r.bucket \in Bucket /\ r.bucket.last = f.last /\ r.bucket.tokens <= f.tokens
            /\ r.pass => r.bucket.tokens + 1 = f.tokens
            /\ ~r.pass => r.bucket = f
        BY <3>1, <3>2, SpendAccount
      <3>5. r.bucket.tokens \in Nat
        BY <3>4 DEF Bucket
      <3>6. CASE r.pass
        <4>1. u = [fUse[c] EXCEPT !.spent = @ + 1]
          BY <2>2, <3>6 DEF Charged
        <4>2. u = [spent |-> fUse[c].spent + 1, since |-> fUse[c].since]
          BY <1>1, <4>1 DEF Usage
        <4>3. u.spent + r.bucket.tokens = fUse[c].spent + f.tokens
          <5>1. r.bucket.tokens + 1 = f.tokens
            BY <3>4, <3>6, Zenon
          <5> QED
            BY <1>1, <3>3, <3>5, <4>2, <5>1
        <4> QED
          BY <1>1, <3>1, <3>3, <3>4, <3>5, <4>2, <4>3, RatesAssumption DEF Usage
      <3>7. CASE ~r.pass
        <4>1. u = fUse[c]
          BY <2>2, <3>7 DEF Charged
        <4> QED
          BY <1>1, <3>1, <3>3, <3>4, <3>7, <4>1
      <3> QED
        BY <3>6, <3>7
    <2> QED
      BY <2>1, <2>2
  <1>4. /\ fuse' = [fuse EXCEPT ![c] = r.bucket] /\ fUse' = [fUse EXCEPT ![c] = u]
        /\ clock' = clock /\ from' = from /\ gb' = gb /\ gUse' = gUse
    BY DEF FusePacket
  <1> HIDE DEF r, u
  <1>5. GlobalAccount'
    BY <1>4 DEF Inv, GlobalAccount, Earned
  <1> QED
    BY <1>3, <1>4, <1>5 DEF Inv, TypeOK, FuseAccount

\* The initial buckets are empty and nothing is spent.
LEMMA InvInit == Init => Inv
  <1> SUFFICES ASSUME Init PROVE Inv
    OBVIOUS
  <1>1. TypeOK
    BY MaxClockAssumption, RatesAssumption DEF Init, TypeOK, ZeroBucket, Bucket, Usage
  <1>2. REFILL_INTERVAL * FUSE_INIT_TOKEN \in Nat
    BY Scale, TimeAssumption, RatesAssumption
  <1>3. REFILL_INTERVAL * 0 = 0 /\ TOKENS_TO_ADD * 0 = 0
    BY TimeAssumption, RatesAssumption
  <1>4. GlobalAccount
    BY DEF Init, GlobalAccount
  <1> QED
    BY <1>1, <1>2, <1>3, <1>4 DEF Init, Inv, FuseAccount, ZeroBucket

\* Time passes: what is earned grows by the rate, or wraps.
LEMMA TickStep ==
    ASSUME Inv, Tick
    PROVE  Inv'
  <1>1. TypeOK' /\ FuseAccount'
    BY MaxClockAssumption DEF Tick, Inv, TypeOK, FuseAccount, Bucket, Usage
  <1>2. PICK now : now = clock + 1
    OBVIOUS
  <1>3. ASSUME NEW c \in Cpus, gUse[c] > 0
        PROVE  /\ gb[c].last # 0 /\ now >= from
               /\ NS_PER_SEC * (gUse[c] + gb[c].tokens)
                     + (((now - gb[c].last) * GLOBAL_RATE) % U64)
                    <= NS_PER_SEC * GLOBAL_BURST + GLOBAL_RATE * (now - from) + (NS_PER_SEC - 1)
    <2>1. /\ clock \in Nat /\ from \in Nat /\ gUse[c] \in Nat
          /\ gb[c].tokens \in Nat /\ gb[c].last \in Nat /\ clock - gb[c].last \in Nat
      BY MaxClockAssumption DEF Inv, TypeOK, Bucket
    <2>2. /\ gb[c].last # 0 /\ clock >= from
          /\ NS_PER_SEC * (gUse[c] + gb[c].tokens) + Earned(c)
               <= NS_PER_SEC * GLOBAL_BURST + GLOBAL_RATE * (clock - from) + (NS_PER_SEC - 1)
      BY <1>3 DEF Inv, GlobalAccount
    <2>3. PICK x \in Nat : x = (clock - gb[c].last) * GLOBAL_RATE
      BY <2>1, Scale, RatesAssumption
    <2>4. (now - gb[c].last) * GLOBAL_RATE = x + GLOBAL_RATE
      <3>1. PICK d \in Nat : d = clock - gb[c].last
        BY <2>1
      <3>2. now - gb[c].last = d + 1 /\ x = d * GLOBAL_RATE
        BY <1>2, <2>1, <2>3, <3>1
      <3>3. (d + 1) * GLOBAL_RATE = d * GLOBAL_RATE + GLOBAL_RATE
        BY RatesAssumption
      <3> QED
        BY <3>2, <3>3, Zenon
    <2>5. (x + GLOBAL_RATE) % U64 <= (x % U64) + GLOBAL_RATE
      BY ModStep, RatesAssumption
    <2>6. Earned(c) = x % U64
      BY <2>3 DEF Earned
    <2>7. GLOBAL_RATE * (now - from) = GLOBAL_RATE * (clock - from) + GLOBAL_RATE
      BY <1>2, <2>1, RatesAssumption
    <2>8. /\ x % U64 \in Int /\ (x + GLOBAL_RATE) % U64 \in Int /\ GLOBAL_RATE \in Int
          /\ GLOBAL_RATE * (clock - from) \in Int /\ NS_PER_SEC * GLOBAL_BURST \in Int
          /\ NS_PER_SEC * (gUse[c] + gb[c].tokens) \in Int /\ NS_PER_SEC \in Int
      BY <1>2, <2>1, <2>3, RatesAssumption, TimeAssumption
    <2>9. now >= from
      BY <1>2, <2>1, <2>2
    <2> QED
      BY <2>2, <2>4, <2>5, <2>6, <2>7, <2>8, <2>9
  <1>4. clock' = now /\ from' = from /\ gb' = gb /\ gUse' = gUse
    BY <1>2 DEF Tick
  <1>5. GlobalAccount'
    BY <1>3, <1>4, Zenon DEF GlobalAccount, Earned
  <1> QED
    BY <1>1, <1>5 DEF Inv

\* Every step preserves the accounts.
LEMMA InvNext == Inv /\ [Next]_vars => Inv'
  <1> SUFFICES ASSUME Inv, [Next]_vars PROVE Inv'
    OBVIOUS
  <1>1. ASSUME NEW c \in Cpus, NEW len \in Lens, GlobalPacket(c, len) PROVE Inv'
    BY <1>1, GlobalStep
  <1>2. ASSUME NEW c \in Cpus, FusePacket(c) PROVE Inv'
    BY <1>2, FuseStep
  <1>3. CASE Tick
    BY <1>3, TickStep
  <1>4. CASE UNCHANGED vars
    BY <1>4 DEF vars, Inv, TypeOK, GlobalAccount, Earned, FuseAccount
  <1> QED
    BY <1>1, <1>2, <1>3, <1>4 DEF Next

\* The account bounds what the stretch admitted: tokens in hand and what is
\* earned are not negative.
LEMMA InvGlobal == Inv => GlobalAdmission
  <1> SUFFICES ASSUME Inv, NEW c \in Cpus, gUse[c] > 0
               PROVE  NS_PER_SEC * gUse[c]
                        <= NS_PER_SEC * GLOBAL_BURST + GLOBAL_RATE * (clock - from) + (NS_PER_SEC - 1)
    BY DEF GlobalAdmission
  <1>1. /\ clock \in Nat /\ from \in Nat /\ gUse[c] \in Nat
        /\ gb[c].tokens \in Nat /\ gb[c].last \in Nat /\ clock - gb[c].last \in Nat
    BY MaxClockAssumption DEF Inv, TypeOK, Bucket
  <1>2. NS_PER_SEC * (gUse[c] + gb[c].tokens) + Earned(c)
          <= NS_PER_SEC * GLOBAL_BURST + GLOBAL_RATE * (clock - from) + (NS_PER_SEC - 1)
    BY DEF Inv, GlobalAccount
  <1>3. (clock - gb[c].last) * GLOBAL_RATE \in Nat
    BY <1>1, Scale, RatesAssumption
  <1>4. Earned(c) \in Nat
    BY <1>3, ModAtMost, RatesAssumption DEF Earned
  <1>5. NS_PER_SEC * gUse[c] <= NS_PER_SEC * (gUse[c] + gb[c].tokens)
    <2>1. gUse[c] + gb[c].tokens \in Nat /\ gUse[c] <= gUse[c] + gb[c].tokens
      BY <1>1
    <2> QED
      BY <1>1, <2>1, Scale, TimeAssumption
  <1>6. /\ NS_PER_SEC * gUse[c] \in Int /\ NS_PER_SEC * (gUse[c] + gb[c].tokens) \in Int
        /\ NS_PER_SEC * GLOBAL_BURST + GLOBAL_RATE * (clock - from) + (NS_PER_SEC - 1) \in Int
    BY <1>1, TimeAssumption, RatesAssumption
  <1> QED
    BY <1>2, <1>4, <1>5, <1>6

\* The account bounds what the fuse let through: tokens in hand are not
\* negative and the last refill is not in the future.
LEMMA InvFuse == Inv => FuseAdmission
  <1> SUFFICES ASSUME Inv, NEW c \in Cpus
               PROVE  REFILL_INTERVAL * fUse[c].spent
                        <= REFILL_INTERVAL * FUSE_INIT_TOKEN
                             + TOKENS_TO_ADD * (clock - fUse[c].since)
    BY DEF FuseAdmission
  <1>1. /\ clock \in Nat
        /\ fuse[c].tokens \in Nat /\ fuse[c].last \in Nat /\ fuse[c].last <= clock
        /\ fUse[c].spent \in Nat /\ fUse[c].since \in Nat /\ fUse[c].since <= fuse[c].last
    BY MaxClockAssumption DEF Inv, TypeOK, Bucket, Usage
  <1>2. REFILL_INTERVAL * (fUse[c].spent + fuse[c].tokens)
          <= REFILL_INTERVAL * FUSE_INIT_TOKEN + TOKENS_TO_ADD * (fuse[c].last - fUse[c].since)
    BY DEF Inv, FuseAccount
  <1>3. REFILL_INTERVAL * fUse[c].spent <= REFILL_INTERVAL * (fUse[c].spent + fuse[c].tokens)
    <2>1. fUse[c].spent + fuse[c].tokens \in Nat /\ fUse[c].spent <= fUse[c].spent + fuse[c].tokens
      BY <1>1
    <2> QED
      BY <1>1, <2>1, Scale, TimeAssumption
  <1>4. TOKENS_TO_ADD * (fuse[c].last - fUse[c].since) <= TOKENS_TO_ADD * (clock - fUse[c].since)
    <2>1. /\ fuse[c].last - fUse[c].since \in Nat /\ clock - fUse[c].since \in Nat
          /\ fuse[c].last - fUse[c].since <= clock - fUse[c].since
      BY <1>1
    <2> QED
      BY <2>1, Scale, RatesAssumption
  <1>5. /\ REFILL_INTERVAL * fUse[c].spent \in Int
        /\ REFILL_INTERVAL * (fUse[c].spent + fuse[c].tokens) \in Int
        /\ REFILL_INTERVAL * FUSE_INIT_TOKEN \in Int
        /\ TOKENS_TO_ADD * (fuse[c].last - fUse[c].since) \in Int
        /\ TOKENS_TO_ADD * (clock - fUse[c].since) \in Int
    BY <1>1, TimeAssumption, RatesAssumption
  <1> QED
    BY <1>2, <1>3, <1>4, <1>5

------------------------------------------------------------------------------
\* In no stretch of time does a CPU's global byte bucket admit more than its
\* burst plus its rate times that time, rounded up to a whole byte
\* (policy.h:112-143).
THEOREM GlobalEnvelope == Spec => []GlobalAdmission
  BY InvInit, InvNext, InvGlobal, PTL DEF Spec

\* No CPU's fuse ever lets through more than its initial tokens plus its
\* refill over the time since it was created (policy.h:35-66).
THEOREM FuseEnvelope == Spec => []FuseAdmission
  BY InvInit, InvNext, InvFuse, PTL DEF Spec

\* The buckets keep their type, are never stamped in the future and never
\* hold more than their burst (policy.h:35-66, 112-143).
THEOREM TypeCorrect == Spec => []TypeOK
  BY InvInit, InvNext, PTL DEF Spec, Inv
==============================================================================
