--------------------------- MODULE TokenBucketProofs --------------------------
(***************************************************************************)
(* What the token bucket keeps for every rate, resolution of the clock,    *)
(* backoff and number of resources and restarts.                           *)
(***************************************************************************)
EXTENDS TokenBucket, TLAPS

\* Products with a number that is not negative keep the order.
LEMMA TimesMonotone ==
    ASSUME NEW a \in Int, NEW b \in Int, NEW c \in Nat, a <= b
    PROVE  c * a <= c * b
  <1>1. c * (b - a) >= 0
    <2>1. b - a \in Nat  OBVIOUS
    <2> QED  BY <2>1
  <1> QED  BY <1>1

\* A common positive factor can be left out.
LEMMA TimesCancels ==
    ASSUME NEW s \in Nat \ {0}, NEW a \in Int, NEW b \in Int, s * a <= s * b
    PROVE  a <= b
  <1> SUFFICES ASSUME a >= b + 1 PROVE FALSE  OBVIOUS
  <1>1. s * (b + 1) <= s * a  BY TimesMonotone
  <1>2. s * (b + 1) = s * b + s  OBVIOUS
  <1> QED  BY <1>1, <1>2

\* What SetRate and NewRateLimiter return fits into the bucket and has a rate.
LEMMA LimiterFits ==
    ASSUME limiter \in [rate: Nat, units: Nat], NEW r \in Nat
    PROVE  /\ GetOrCreate(r) \in [rate: Nat, units: Nat]
           /\ GetOrCreate(r).units <= GetOrCreate(r).rate * Second
           /\ GetOrCreate(r).rate > 0
           /\ limiter # NoLimiter => GetOrCreate(r).units <= limiter.units
  <1> DEFINE wanted == IF r > 0 THEN r ELSE DefaultMaxPerSecond
  <1>1. wanted \in Nat \ {0} /\ Positive(wanted) = wanted
    BY RatesAssumption DEF Positive
  <1>2. wanted * Second \in Nat  BY <1>1, SecondAssumption
  <1>3. CASE limiter = NoLimiter
    BY <1>1, <1>2, <1>3 DEF GetOrCreate, NewRateLimiter
  <1>4. CASE limiter # NoLimiter
    <2>1. GetOrCreate(r) = [rate |-> wanted, units |-> Least(limiter.units, wanted * Second)]
      BY <1>1, <1>4 DEF GetOrCreate, SetRate
    <2> QED  BY <1>1, <1>2, <2>1 DEF Least
  <1> QED  BY <1>3, <1>4

-----------------------------------------------------------------------------
(* Types.                                                                  *)

\* A tick earns at most the rate and never overfills the bucket.
LEMMA EarnFits ==
    ASSUME limiter \in [rate: Nat, units: Nat], limiter.units <= limiter.rate * Second
    PROVE  /\ Earn(limiter) \in [rate: Nat, units: Nat]
           /\ Earn(limiter).rate = limiter.rate
           /\ Earn(limiter).units <= limiter.rate * Second
           /\ Earn(limiter).units <= limiter.units + limiter.rate
  <1>1. limiter.rate * Second \in Nat  BY SecondAssumption
  <1> QED  BY <1>1 DEF Earn, Least

\* A process starts without a limiter.
LEMMA InitTyped == Init => TypeOK
  <1> SUFFICES ASSUME Init PROVE TypeOK  OBVIOUS
  <1>1. limiter \in [rate: Nat, units: Nat] /\ limiter.units <= limiter.rate * Second
    BY SecondAssumption DEF Init, NoLimiter
  <1>2. watch \in [left: 0 .. Second, peak: Nat, fresh: Nat, sent: Nat, done: Nat]
    BY SecondAssumption DEF Init, Closed
  <1> QED  BY <1>1, <1>2 DEF Init, TypeOK

\* Every action keeps the types, and the tokens within the bucket.
LEMMA StepTyped == TypeOK /\ [Next]_vars => TypeOK'
  <1> SUFFICES ASSUME TypeOK, [Next]_vars PROVE TypeOK'  OBVIOUS
  <1> USE SecondAssumption, RatesAssumption, BackoffAssumption, BoundAssumption DEF TypeOK
  <1>1. ASSUME NEW r \in Rates, NEW n \in 1 .. MaxDue, NEW d \in BOOLEAN,
               StartDeleting(r, n, d)
        PROVE  TypeOK'
    <2>1. /\ limiter' \in [rate: Nat, units: Nat] /\ limiter'.units <= limiter'.rate * Second
          /\ limiter'.rate > 0
      BY <1>1, LimiterFits DEF StartDeleting
    <2>2. watch' \in [left: 0 .. Second, peak: Nat, fresh: Nat, sent: Nat, done: Nat]
      <3>1. Most(watch.peak, limiter'.rate) \in Nat  BY <2>1 DEF Most
      <3>2. CASE watch.left = 0  BY <1>1, <3>2 DEF StartDeleting
      <3>3. CASE watch.left # 0
        <4> DEFINE f == IF limiter = NoLimiter THEN watch.fresh + 1 ELSE watch.fresh
        <4>1. watch' = [watch EXCEPT !.peak = Most(watch.peak, limiter'.rate), !.fresh = f]
          BY <1>1, <3>3 DEF StartDeleting
        <4>2. f \in Nat  OBVIOUS
        <4> HIDE DEF f
        <4> QED  BY <3>1, <4>1, <4>2
      <3> QED  BY <3>2, <3>3
    <2>3. dry' \in BOOLEAN /\ due' \in Nat \ {0} /\ pc' = "batch"
      BY <1>1 DEF StartDeleting
    <2>4. step' \in Nat /\ pause' \in Nat /\ sleep' \in Nat
      BY <1>1 DEF StartDeleting, backoff
    <2> QED  BY <2>1, <2>2, <2>3, <2>4
  <1>2. CASE EndDeleting  BY <1>2 DEF EndDeleting, backoff
  <1>3. ASSUME Wait
        PROVE  /\ limiter' \in [rate: Nat, units: Nat]
               /\ limiter'.units <= limiter'.rate * Second /\ limiter'.rate = limiter.rate
    BY <1>3 DEF Wait, HasToken
  <1>4. CASE WaitForBatch  BY <1>3, <1>4 DEF WaitForBatch
  <1>5. CASE WaitForAttempt  BY <1>3, <1>5 DEF WaitForAttempt, backoff
  <1>6. ASSUME pc \in {"attempt", "send", "reply"}, Succeed \/ Fail PROVE TypeOK'
    BY <1>6 DEF Succeed, Fail, NextResource, Note, backoff
  <1>7. CASE GiveUp  BY <1>6, <1>7 DEF GiveUp
  <1>8. CASE Send
    <2>1. CASE Succeed  BY <1>6, <1>8, <2>1 DEF Send
    <2>2. CASE ~Succeed  BY <1>8, <2>2 DEF Send, Note, backoff
    <2> QED  BY <2>1, <2>2
  <1>9. CASE Receive
    <2>1. CASE Succeed \/ Fail  BY <1>6, <1>9, <2>1 DEF Receive
    <2>2. CASE ~(Succeed \/ Fail)  BY <1>9, <2>2 DEF Receive, NextPause, Least
    <2> QED  BY <2>1, <2>2
  <1>10. CASE WakeUp  BY <1>10 DEF WakeUp, backoff
  <1>11. CASE Tick
    <2>1. /\ limiter' \in [rate: Nat, units: Nat] /\ limiter'.rate = limiter.rate
          /\ limiter'.units <= limiter'.rate * Second
      BY <1>11, EarnFits DEF Tick
    <2>2. watch' \in [left: 0 .. Second, peak: Nat, fresh: Nat, sent: Nat, done: Nat]
      BY <1>11 DEF Tick, Closed
    <2> QED  BY <1>11, <2>1, <2>2 DEF Tick
  <1>12. CASE Restart
    <2>1. limiter' \in [rate: Nat, units: Nat] /\ limiter'.units <= limiter'.rate * Second
      BY <1>12 DEF Restart, NoLimiter
    <2> QED  BY <1>12, <2>1 DEF Restart
  <1>13. CASE OpenWindow
    <2>1. watch' = [left |-> Second, peak |-> limiter.rate, fresh |-> 0, sent |-> 0, done |-> 0]
      BY <1>13 DEF OpenWindow, Closed
    <2> QED  BY <1>13, <2>1 DEF OpenWindow, backoff
  <1>14. CASE UNCHANGED vars  BY <1>14 DEF vars, backoff
  <1> QED
    BY <1>1, <1>2, <1>4, <1>5, <1>7, <1>8, <1>9, <1>10, <1>11, <1>12, <1>13, <1>14 DEF Next, Work

\* The bucket never holds more than the burst of its rate, and a run that is under
\* way has a limiter that earns tokens (NewRateLimiter, SetRate).
THEOREM BucketTyped == Spec => []TypeOK
  <1> QED  BY InitTyped, StepTyped, PTL DEF Spec

-----------------------------------------------------------------------------
(* What a second can pay for.                                              *)

\* Tokens the current resource has taken, at least, and requests it is about to send.
Held == IF pc \in {"attempt", "pause"} THEN 1 ELSE IF pc \in {"send", "reply"} THEN 2 ELSE 0
Owed == IF pc = "send" THEN 1 ELSE 0

\* A full bucket, one more per process, and the income so far, at the highest rate.
Budget == watch.peak * (Second * (2 + watch.fresh) - watch.left)

\* What was deleted and requested in the window was paid for, and what is left in the
\* bucket comes on top of it: this is the invariant the two bounds follow from.
Paid ==
    watch.left > 0 =>
        /\ limiter.rate <= watch.peak
        /\ Second * (2 * watch.done + Held) + limiter.units <= Budget + 2 * Second
        /\ Second * (watch.sent + Owed) + limiter.units <= Budget + Second

\* A window that is closed counts nothing.
ClosedIsEmpty == watch.left = 0 => watch = Closed

IInv == TypeOK /\ ClosedIsEmpty /\ Paid

\* A resource holds two tokens at most, and owes one request.
LEMMA HeldTyped ==
    Held \in {0, 1, 2} /\ Held' \in {0, 1, 2} /\ Owed \in {0, 1} /\ Owed' \in {0, 1}
  BY DEF Held, Owed

\* No window is open at first.
LEMMA InitPaid == Init => ClosedIsEmpty /\ Paid
  BY DEF Init, ClosedIsEmpty, Paid, Closed

\* Steps that take no part in the window and leave the tokens as they are: what the
\* resource holds may only be given up.
LEMMA QuietStep ==
    ASSUME TypeOK, ClosedIsEmpty, Paid,
           UNCHANGED <<limiter, watch>>, Held' <= Held, Owed' <= Owed
    PROVE  (ClosedIsEmpty /\ Paid)'
  <1> USE SecondAssumption
  <1>1. ClosedIsEmpty'  BY DEF ClosedIsEmpty, Closed
  <1>2. ASSUME watch.left > 0 PROVE Paid'
    <2>1. Second * (2 * watch.done + Held') <= Second * (2 * watch.done + Held)
      <3>1. /\ 2 * watch.done + Held' \in Int /\ 2 * watch.done + Held \in Int
            /\ 2 * watch.done + Held' <= 2 * watch.done + Held
        BY HeldTyped DEF TypeOK
      <3> QED  BY <3>1, TimesMonotone
    <2>2. Second * (watch.sent + Owed') <= Second * (watch.sent + Owed)
      <3>1. /\ watch.sent + Owed' \in Int /\ watch.sent + Owed \in Int
            /\ watch.sent + Owed' <= watch.sent + Owed
        BY HeldTyped DEF TypeOK
      <3> QED  BY <3>1, TimesMonotone
    <2> QED  BY <1>2, <2>1, <2>2, HeldTyped DEF Paid, Budget, TypeOK
  <1> QED  BY <1>1, <1>2 DEF Paid

\* A token pays for one more unit that the resource holds.
LEMMA WaitPays ==
    ASSUME TypeOK, ClosedIsEmpty, Paid, Wait, UNCHANGED watch,
           Held' <= Held + 1, Owed' <= Owed + 1
    PROVE  (ClosedIsEmpty /\ Paid)'
  <1> USE SecondAssumption
  <1>1. ClosedIsEmpty'  BY DEF ClosedIsEmpty, Closed
  <1>2. ASSUME watch.left > 0 PROVE Paid'
    <2>1. limiter'.rate = limiter.rate /\ limiter'.units = limiter.units - Second
      BY DEF Wait, TypeOK
    <2>2. Second * (2 * watch.done + Held') <= Second * (2 * watch.done + Held) + Second
      <3>1. /\ 2 * watch.done + Held' \in Int /\ 2 * watch.done + Held + 1 \in Int
            /\ 2 * watch.done + Held' <= 2 * watch.done + Held + 1
        BY HeldTyped DEF TypeOK
      <3>2. Second * (2 * watch.done + Held') <= Second * (2 * watch.done + Held + 1)
        BY <3>1, TimesMonotone
      <3> QED  BY <3>1, <3>2, HeldTyped DEF TypeOK
    <2>3. Second * (watch.sent + Owed') <= Second * (watch.sent + Owed) + Second
      <3>1. /\ watch.sent + Owed' \in Int /\ watch.sent + Owed + 1 \in Int
            /\ watch.sent + Owed' <= watch.sent + Owed + 1
        BY HeldTyped DEF TypeOK
      <3>2. Second * (watch.sent + Owed') <= Second * (watch.sent + Owed + 1)
        BY <3>1, TimesMonotone
      <3> QED  BY <3>1, <3>2, HeldTyped DEF TypeOK
    <2>4. /\ Second * (2 * watch.done + Held) \in Int /\ Second * (watch.sent + Owed) \in Int
          /\ Second * (2 * watch.done + Held') \in Int /\ Second * (watch.sent + Owed') \in Int
          /\ Budget \in Int /\ limiter.units \in Int
      BY HeldTyped DEF TypeOK, Budget
    <2>5. Budget' = Budget  BY DEF Budget
    <2> QED  BY <1>2, <2>1, <2>2, <2>3, <2>4, <2>5 DEF Paid
  <1> QED  BY <1>1, <1>2 DEF Paid

\* A deletion uses up the two tokens its resource holds.
LEMMA SuccessPaid ==
    ASSUME TypeOK, ClosedIsEmpty, Paid, pc \in {"send", "reply"}, Succeed
    PROVE  (ClosedIsEmpty /\ Paid)'
  <1> USE SecondAssumption
  <1>1. ClosedIsEmpty'  BY DEF ClosedIsEmpty, Closed, Succeed, Note, TypeOK
  <1>2. ASSUME watch.left > 0 PROVE Paid'
    <2>1. /\ watch'.left = watch.left /\ watch'.peak = watch.peak /\ watch'.fresh = watch.fresh
          /\ watch'.sent = watch.sent /\ watch'.done = watch.done + 1 /\ limiter' = limiter
      BY <1>2 DEF Succeed, Note, TypeOK
    <2>2. Held = 2 /\ Held' = 0 /\ Owed' = 0 /\ Owed \in {0, 1}
      BY DEF Held, Owed, Succeed, NextResource
    <2>3. 2 * watch'.done + Held' = 2 * watch.done + Held  BY <2>1, <2>2 DEF TypeOK
    <2>4. Second * (watch'.sent + Owed') <= Second * (watch.sent + Owed)
      <3>1. /\ watch'.sent + Owed' \in Int /\ watch.sent + Owed \in Int
            /\ watch'.sent + Owed' <= watch.sent + Owed
        BY <2>1, <2>2 DEF TypeOK
      <3> QED  BY <3>1, TimesMonotone
    <2>5. Budget' = Budget  BY <2>1 DEF Budget
    <2>6. /\ Second * (watch.sent + Owed) \in Int /\ Second * (watch'.sent + Owed') \in Int
          /\ Budget \in Int /\ limiter.units \in Int
      BY <2>1, <2>2 DEF TypeOK, Budget
    <2> QED  BY <1>2, <2>1, <2>3, <2>4, <2>5, <2>6 DEF Paid
  <1>3. ASSUME watch.left = 0 PROVE Paid'  BY <1>3 DEF Paid, Succeed, Note
  <1> QED  BY <1>1, <1>2, <1>3 DEF TypeOK

\* A request uses up the unit that was owed for it.
LEMMA RequestPaid ==
    ASSUME TypeOK, ClosedIsEmpty, Paid, Send, ~Succeed
    PROVE  (ClosedIsEmpty /\ Paid)'
  <1> USE SecondAssumption
  <1>1. pc = "send" /\ pc' = "reply" /\ limiter' = limiter /\ Note("sent")  BY DEF Send
  <1>2. ASSUME watch.left > 0 PROVE (ClosedIsEmpty /\ Paid)'
    <2>1. /\ watch'.left = watch.left /\ watch'.peak = watch.peak /\ watch'.fresh = watch.fresh
          /\ watch'.done = watch.done /\ watch'.sent = watch.sent + 1
      BY <1>1, <1>2 DEF Note, TypeOK
    <2>2. Held' = Held /\ Owed = 1 /\ Owed' = 0  BY <1>1 DEF Held, Owed
    <2>3. watch'.sent + Owed' = watch.sent + Owed  BY <2>1, <2>2 DEF TypeOK
    <2>4. Budget' = Budget  BY <2>1 DEF Budget
    <2> QED  BY <1>1, <1>2, <2>1, <2>2, <2>3, <2>4 DEF Paid, ClosedIsEmpty, TypeOK
  <1>3. ASSUME watch.left = 0 PROVE (ClosedIsEmpty /\ Paid)'
    BY <1>1, <1>3 DEF Paid, ClosedIsEmpty, Note, Closed
  <1> QED  BY <1>2, <1>3 DEF TypeOK

\* What a tick earns is what it adds to the budget of the window, at most.
LEMMA TickPaid ==
    ASSUME TypeOK, ClosedIsEmpty, Paid, Tick
    PROVE  (ClosedIsEmpty /\ Paid)'
  <1> USE SecondAssumption
  <1>1. CASE watch.left > 1
    <2>1. watch' = [watch EXCEPT !.left = @ - 1]  BY <1>1 DEF Tick
    <2>2. /\ watch'.left = watch.left - 1 /\ watch'.peak = watch.peak
          /\ watch'.fresh = watch.fresh /\ watch'.sent = watch.sent /\ watch'.done = watch.done
      BY <2>1 DEF TypeOK
    <2>3. /\ limiter'.rate = limiter.rate /\ limiter'.units <= limiter.units + limiter.rate
          /\ limiter'.units \in Nat
      BY EarnFits DEF Tick, TypeOK
    <2>4. Held' = Held /\ Owed' = Owed  BY DEF Tick, Held, Owed
    <2>5. Budget' = Budget + watch.peak
      <3> DEFINE k == Second * (2 + watch.fresh)
      <3>1. k \in Int  BY DEF TypeOK
      <3>2. watch.peak * (k - (watch.left - 1)) = watch.peak * (k - watch.left) + watch.peak
        <4> HIDE DEF k
        <4> QED  BY <3>1 DEF TypeOK
      <3> QED  BY <2>2, <3>2 DEF Budget
    <2>6. /\ Second * (2 * watch.done + Held) \in Int /\ Second * (watch.sent + Owed) \in Int
          /\ Budget \in Int /\ limiter.units \in Int
          /\ limiter.rate \in Int /\ watch.peak \in Int
      BY HeldTyped DEF TypeOK, Budget
    <2>7. watch.left > 0 /\ watch'.left \in Nat \ {0}  BY <1>1, <2>2 DEF TypeOK
    <2>8. /\ Second * (2 * watch'.done + Held') = Second * (2 * watch.done + Held)
          /\ Second * (watch'.sent + Owed') = Second * (watch.sent + Owed)
      BY <2>2, <2>4
    <2>9. /\ limiter'.rate <= watch'.peak /\ limiter.rate <= watch.peak
          /\ Second * (2 * watch.done + Held) + limiter.units <= Budget + 2 * Second
          /\ Second * (watch.sent + Owed) + limiter.units <= Budget + Second
      BY <2>2, <2>3, <2>7 DEF Paid
    <2>10. /\ Second * (2 * watch.done + Held) + limiter'.units <= Budget' + 2 * Second
           /\ Second * (watch.sent + Owed) + limiter'.units <= Budget' + Second
      BY <2>3, <2>5, <2>6, <2>9
    <2>11. Paid'  BY <2>8, <2>9, <2>10 DEF Paid
    <2> QED  BY <2>7, <2>11 DEF ClosedIsEmpty
  <1>2. CASE ~(watch.left > 1)
    <2>1. watch' = Closed  BY <1>2 DEF Tick
    <2> QED  BY <2>1 DEF Paid, ClosedIsEmpty, Closed
  <1> QED  BY <1>1, <1>2

\* A second that begins finds a full bucket at most, and a resource that has not
\* been paid for by more than two tokens.
LEMMA OpenPaid ==
    ASSUME TypeOK, ClosedIsEmpty, Paid, OpenWindow
    PROVE  (ClosedIsEmpty /\ Paid)'
  <1> USE SecondAssumption
  <1>1. /\ watch'.left = Second /\ watch'.peak = limiter.rate /\ watch'.fresh = 0
        /\ watch'.sent = 0 /\ watch'.done = 0
    BY DEF OpenWindow, Closed
  <1>2. limiter' = limiter /\ Held' = Held /\ Owed' = Owed  BY DEF OpenWindow, Held, Owed
  <1>3. Budget' = limiter.rate * Second
    <2>1. Second * (2 + 0) - Second = Second  OBVIOUS
    <2> QED  BY <1>1, <2>1 DEF Budget
  <1>4. Second * (2 * 0 + Held) <= 2 * Second /\ Second * (0 + Owed) <= Second
    BY HeldTyped
  <1>5. /\ Second * (2 * 0 + Held) \in Int /\ Second * (0 + Owed) \in Int
        /\ limiter.units \in Int /\ limiter.rate \in Int /\ limiter.rate * Second \in Int
    BY HeldTyped DEF TypeOK
  <1>6. limiter.units <= limiter.rate * Second  BY DEF TypeOK
  <1>7. Paid'  BY <1>1, <1>2, <1>3, <1>4, <1>5, <1>6 DEF Paid
  <1> QED  BY <1>1, <1>7 DEF ClosedIsEmpty

\* A new process starts with a full bucket, for which the budget has a share; a
\* changed rate adds no tokens to an old one.
LEMMA StartPaid ==
    ASSUME TypeOK, ClosedIsEmpty, Paid,
           NEW r \in Rates, NEW n \in 1 .. MaxDue, NEW d \in BOOLEAN, StartDeleting(r, n, d)
    PROVE  (ClosedIsEmpty /\ Paid)'
  <1> USE SecondAssumption, RatesAssumption
  <1>1. CASE watch.left = 0  BY <1>1 DEF StartDeleting, ClosedIsEmpty, Paid, Closed
  <1>2. CASE watch.left > 0
    <2> DEFINE new  == IF limiter = NoLimiter THEN 1 ELSE 0
               p    == Most(watch.peak, limiter'.rate)
               k    == Second * (2 + watch.fresh) - watch.left
    <2>1. /\ limiter' \in [rate: Nat, units: Nat] /\ limiter'.units <= limiter'.rate * Second
          /\ limiter # NoLimiter => limiter'.units <= limiter.units
      BY LimiterFits DEF StartDeleting, TypeOK
    <2>2. p \in Nat /\ watch.peak <= p /\ limiter'.rate <= p  BY <2>1 DEF Most, TypeOK
    <2>3. /\ watch'.left = watch.left /\ watch'.peak = p /\ watch'.fresh = watch.fresh + new
          /\ watch'.sent = watch.sent /\ watch'.done = watch.done
      BY <1>2 DEF StartDeleting, TypeOK
    <2>4. Held = 0 /\ Held' = 0 /\ Owed = 0 /\ Owed' = 0  BY DEF StartDeleting, Held, Owed
    <2>5. k \in Nat
      <3>1. Second * watch.fresh \in Nat  BY DEF TypeOK
      <3>2. Second * (2 + watch.fresh) = 2 * Second + Second * watch.fresh  BY DEF TypeOK
      <3> QED  BY <3>1, <3>2 DEF TypeOK
    <2>6. k * watch.peak <= k * p  BY <2>2, <2>5, TimesMonotone DEF TypeOK
    <2>7. Budget = k * watch.peak  BY <2>5 DEF Budget, TypeOK
    <2>8. Budget' = k * p + (Second * p) * new
      <3>1. Second * (2 + (watch.fresh + new)) - watch.left = k + Second * new
        BY DEF TypeOK
      <3>2. p * (k + Second * new) = k * p + (Second * p) * new
        <4> HIDE DEF k, p
        <4>1. CASE new = 0  BY <2>2, <2>5, <4>1
        <4>2. CASE new = 1  BY <2>2, <2>5, <4>2
        <4> QED  BY <4>1, <4>2
      <3> HIDE DEF k, p, new
      <3> QED  BY <2>3, <3>1, <3>2 DEF Budget
    <2>9. Second * limiter'.rate <= Second * p  BY <2>1, <2>2, TimesMonotone
    <2>10. limiter'.units <= limiter.units + (Second * p) * new
      <3>1. CASE limiter = NoLimiter
        <4>1. limiter.units = 0 /\ new = 1  BY <3>1 DEF NoLimiter
        <4>2. limiter'.units <= Second * p  BY <2>1, <2>2, <2>9
        <4> HIDE DEF p, new
        <4> QED  BY <2>1, <2>2, <4>1, <4>2
      <3>2. CASE limiter # NoLimiter
        <4>1. new = 0 /\ limiter'.units <= limiter.units  BY <2>1, <3>2
        <4> HIDE DEF p, new
        <4> QED  BY <2>1, <2>2, <4>1 DEF TypeOK
      <3> QED  BY <3>1, <3>2
    <2>11. /\ Second * (2 * watch.done + 0) \in Int /\ Second * (watch.sent + 0) \in Int
           /\ k * watch.peak \in Int /\ k * p \in Int /\ (Second * p) * new \in Int
           /\ limiter.units \in Int /\ limiter'.units \in Int
      BY <2>1, <2>2, <2>5 DEF TypeOK
    <2> HIDE DEF k, p, new
    <2>12. Paid'
      BY <1>2, <2>2, <2>3, <2>4, <2>6, <2>7, <2>8, <2>10, <2>11 DEF Paid
    <2> QED  BY <1>2, <2>3, <2>12 DEF ClosedIsEmpty
  <1> QED  BY <1>1, <1>2 DEF TypeOK

\* A process that ends takes its tokens with it.
LEMMA RestartPaid ==
    ASSUME TypeOK, ClosedIsEmpty, Paid, Restart
    PROVE  (ClosedIsEmpty /\ Paid)'
  <1> USE SecondAssumption
  <1>1. /\ watch' = watch /\ limiter'.rate = 0 /\ limiter'.units = 0
        /\ Held' = 0 /\ Owed' = 0
    BY DEF Restart, NoLimiter, Held, Owed
  <1>2. ASSUME watch.left > 0 PROVE Paid'
    <2>1. Budget' = Budget  BY <1>1 DEF Budget
    <2>2. Second * (2 * watch.done + 0) <= Second * (2 * watch.done + Held)
      <3>1. /\ 2 * watch.done + 0 \in Int /\ 2 * watch.done + Held \in Int
            /\ 2 * watch.done + 0 <= 2 * watch.done + Held
        BY HeldTyped DEF TypeOK
      <3> QED  BY <3>1, TimesMonotone
    <2>3. Second * (watch.sent + 0) <= Second * (watch.sent + Owed)
      <3>1. /\ watch.sent + 0 \in Int /\ watch.sent + Owed \in Int
            /\ watch.sent + 0 <= watch.sent + Owed
        BY HeldTyped DEF TypeOK
      <3> QED  BY <3>1, TimesMonotone
    <2>4. /\ Second * (2 * watch.done + Held) \in Int /\ Second * (watch.sent + Owed) \in Int
          /\ Second * (2 * watch.done + 0) \in Int /\ Second * (watch.sent + 0) \in Int
          /\ Budget \in Int /\ limiter.units \in Nat /\ watch.peak \in Nat
      BY HeldTyped DEF TypeOK, Budget
    <2> QED  BY <1>1, <1>2, <2>1, <2>2, <2>3, <2>4 DEF Paid
  <1> QED  BY <1>1, <1>2 DEF Paid, ClosedIsEmpty, TypeOK

\* Whatever happens in the second is paid for by the bucket.
LEMMA StepPaid ==
    ASSUME TypeOK, ClosedIsEmpty, Paid, [Next]_vars
    PROVE  (ClosedIsEmpty /\ Paid)'
  <1>1. CASE EndDeleting
    BY <1>1, QuietStep DEF EndDeleting, backoff, Held, Owed
  <1>2. CASE WaitForBatch
    <2>1. Wait /\ UNCHANGED watch  BY <1>2 DEF WaitForBatch
    <2>2. Held' <= Held + 1 /\ Owed' <= Owed + 1  BY <1>2 DEF WaitForBatch, Held, Owed
    <2> QED  BY <2>1, <2>2, WaitPays
  <1>3. CASE WaitForAttempt
    <2>1. Wait /\ UNCHANGED watch  BY <1>3 DEF WaitForAttempt
    <2>2. Held' <= Held + 1 /\ Owed' <= Owed + 1  BY <1>3 DEF WaitForAttempt, Held, Owed
    <2> QED  BY <2>1, <2>2, WaitPays
  <1>4. ASSUME Fail PROVE (ClosedIsEmpty /\ Paid)'
    <2>1. Held' <= Held /\ Owed' <= Owed  BY <1>4 DEF Fail, NextResource, Held, Owed
    <2> QED  BY <1>4, <2>1, QuietStep DEF Fail
  <1>5. CASE GiveUp  BY <1>4, <1>5 DEF GiveUp
  <1>6. CASE Send
    <2>1. CASE Succeed  BY <1>6, <2>1, SuccessPaid DEF Send
    <2> QED  BY <1>6, <2>1, RequestPaid
  <1>7. CASE Receive
    <2>1. CASE Succeed  BY <1>7, <2>1, SuccessPaid DEF Receive
    <2>2. CASE ~Succeed /\ ~Fail
      BY <1>7, <2>2, QuietStep DEF Receive, Held, Owed
    <2> QED  BY <1>4, <2>1, <2>2
  <1>8. CASE WakeUp  BY <1>8, QuietStep DEF WakeUp, Held, Owed
  <1>9. CASE UNCHANGED vars  BY <1>9, QuietStep DEF vars, Held, Owed
  <1>10. CASE Work  BY <1>1, <1>2, <1>3, <1>5, <1>6, <1>7, <1>8, <1>10 DEF Work
  <1> QED  BY <1>9, <1>10, StartPaid, TickPaid, RestartPaid, OpenPaid DEF Next

\* The invariant of the proofs holds throughout.
LEMMA InvariantHolds == Spec => []IInv
  <1>1. Init => IInv  BY InitTyped, InitPaid DEF IInv
  <1>2. IInv /\ [Next]_vars => IInv'  BY StepTyped, StepPaid DEF IInv
  <1> QED  BY <1>1, <1>2, PTL DEF Spec

\* What the budget comes to over a whole second.
LEMMA BudgetBound ==
    ASSUME TypeOK PROVE Budget <= Second * (watch.peak * (2 + watch.fresh))
  <1> USE SecondAssumption
  <1> DEFINE k == watch.peak * (2 + watch.fresh)
  <1>1. k \in Nat /\ watch.peak * watch.left \in Nat  BY DEF TypeOK
  <1>2. Budget = Second * k - watch.peak * watch.left  BY DEF Budget, TypeOK
  <1>3. Second * k \in Int  BY <1>1
  <1> HIDE DEF k
  <1>4. Budget <= Second * k  BY <1>1, <1>2, <1>3
  <1> QED  BY <1>4 DEF k

\* No second sees more deletions than the highest rate in force in it, the one that
\* was under way and the full buckets of processes that start in it aside, whatever
\* the rates and however they are edited (deleteBatchShared, deleteResource, SetRate).
THEOREM RateHonoured == Spec => []DeletionsBounded
  <1> USE SecondAssumption
  <1>1. IInv => DeletionsBounded
    <2> SUFFICES ASSUME IInv PROVE DeletionsBounded  OBVIOUS
    <2> DEFINE k == watch.peak * (2 + watch.fresh)
    <2>1. k \in Nat  BY DEF IInv, TypeOK
    <2>2. CASE watch.left > 0
      <3>1. Second * (2 * watch.done + Held) + limiter.units <= Second * k + 2 * Second
        <4>1. Budget \in Int /\ Second * (2 * watch.done + Held) \in Int /\ limiter.units \in Int
          BY HeldTyped DEF IInv, TypeOK, Budget
        <4>2. Budget <= Second * k  BY BudgetBound DEF IInv
        <4>3. Second * k \in Int  BY <2>1
        <4> HIDE DEF k
        <4> QED  BY <2>2, <4>1, <4>2, <4>3 DEF IInv, Paid
      <3>2. Second * (2 * (watch.done - 1)) <= Second * (2 * watch.done + Held) - 2 * Second
        <4>1. /\ 2 * (watch.done - 1) \in Int /\ (2 * watch.done + Held) - 2 \in Int
              /\ 2 * (watch.done - 1) <= (2 * watch.done + Held) - 2
          BY HeldTyped DEF IInv, TypeOK
        <4>2. Second * (2 * (watch.done - 1)) <= Second * ((2 * watch.done + Held) - 2)
          BY <4>1, TimesMonotone
        <4>3. Second * ((2 * watch.done + Held) - 2) = Second * (2 * watch.done + Held) - 2 * Second
          BY HeldTyped DEF IInv, TypeOK
        <4> QED  BY <4>2, <4>3
      <3>3. /\ Second * (2 * (watch.done - 1)) \in Int /\ Second * (2 * watch.done + Held) \in Int
            /\ limiter.units \in Nat /\ Second * k \in Int /\ 2 * (watch.done - 1) \in Int
        BY <2>1, HeldTyped DEF IInv, TypeOK
      <3> HIDE DEF k
      <3>4. Second * (2 * (watch.done - 1)) <= Second * k  BY <3>1, <3>2, <3>3
      <3>5. 2 * (watch.done - 1) <= k  BY <2>1, <3>3, <3>4, TimesCancels
      <3> QED  BY <3>5 DEF DeletionsBounded, k
    <2>3. CASE watch.left = 0
      BY <2>3 DEF IInv, ClosedIsEmpty, Closed, DeletionsBounded
    <2> QED  BY <2>2, <2>3 DEF IInv, TypeOK
  <1> QED  BY <1>1, InvariantHolds, PTL

\* Retries are paid for like first attempts: no second sees more requests than a full
\* bucket, a second's income and the buckets of new processes pay for
\* (deleteResourceWithBackoffShared, deleteResource).
THEOREM RetriesCharged == Spec => []RequestsBounded
  <1> USE SecondAssumption
  <1>1. IInv => RequestsBounded
    <2> SUFFICES ASSUME IInv PROVE RequestsBounded  OBVIOUS
    <2> DEFINE k == watch.peak * (2 + watch.fresh)
    <2>1. k \in Nat  BY DEF IInv, TypeOK
    <2>2. CASE watch.left > 0
      <3>1. Second * (watch.sent + Owed) + limiter.units <= Second * k + Second
        <4>1. Budget \in Int /\ Second * (watch.sent + Owed) \in Int /\ limiter.units \in Int
          BY HeldTyped DEF IInv, TypeOK, Budget
        <4>2. Budget <= Second * k  BY BudgetBound DEF IInv
        <4>3. Second * k \in Int  BY <2>1
        <4> HIDE DEF k
        <4> QED  BY <2>2, <4>1, <4>2, <4>3 DEF IInv, Paid
      <3>2. Second * (watch.sent - 1) <= Second * (watch.sent + Owed) - Second
        <4>1. /\ watch.sent - 1 \in Int /\ (watch.sent + Owed) - 1 \in Int
              /\ watch.sent - 1 <= (watch.sent + Owed) - 1
          BY HeldTyped DEF IInv, TypeOK
        <4>2. Second * (watch.sent - 1) <= Second * ((watch.sent + Owed) - 1)
          BY <4>1, TimesMonotone
        <4>3. Second * ((watch.sent + Owed) - 1) = Second * (watch.sent + Owed) - Second
          BY HeldTyped DEF IInv, TypeOK
        <4> QED  BY <4>2, <4>3
      <3>3. /\ Second * (watch.sent - 1) \in Int /\ Second * (watch.sent + Owed) \in Int
            /\ limiter.units \in Nat /\ Second * k \in Int /\ watch.sent - 1 \in Int
        BY <2>1, HeldTyped DEF IInv, TypeOK
      <3> HIDE DEF k
      <3>4. Second * (watch.sent - 1) <= Second * k  BY <3>1, <3>2, <3>3
      <3>5. watch.sent - 1 <= k  BY <2>1, <3>3, <3>4, TimesCancels
      <3> QED  BY <3>5 DEF RequestsBounded, k
    <2>3. CASE watch.left = 0
      BY <2>3 DEF IInv, ClosedIsEmpty, Closed, RequestsBounded
    <2> QED  BY <2>2, <2>3 DEF IInv, TypeOK
  <1> QED  BY <1>1, InvariantHolds, PTL

-----------------------------------------------------------------------------
(* Why a run ends: the part of RunEnds that is no fairness.                *)

\* What is left to do for the current resource, in steps of the worker.
Left ==
    CASE pc = "batch"   -> 4 * Steps + 5
      [] pc = "pause"   -> 4 * (Steps - step) + 5
      [] pc = "attempt" -> 4 * (Steps - step) + 4
      [] pc = "send"    -> 4 * (Steps - step) + 3
      [] OTHER          -> 4 * (Steps - step) + 2

\* A resource is done with, or closer to it.
Lower ==
    \/ due > 0 /\ due' = due - 1
    \/ due' = due /\ 0 <= Left' /\ Left' < Left

\* What the worker waits for is not taken away, and with every tick it is closer.
Nearer ==
    /\ limiter'.units >= limiter.units /\ sleep' <= sleep
    /\ Tick => /\ HasToken \/ limiter'.units > limiter.units
               /\ sleep = 0 \/ sleep' < sleep

\* The retries stay within the steps of the backoff and the pauses below its cap.
RetriesBounded ==
    /\ pc \in {"attempt", "pause"} => step <= Steps
    /\ pc \in {"send", "reply"} => step < Steps
    /\ pause <= Most(Duration, Cap) /\ sleep <= Most(Duration, Cap)

LEMMA RetriesInductive == TypeOK /\ RetriesBounded /\ [Next]_vars => RetriesBounded'
  <1> SUFFICES ASSUME TypeOK, RetriesBounded, [Next]_vars PROVE RetriesBounded'  OBVIOUS
  <1> USE BackoffAssumption DEF TypeOK, RetriesBounded
  <1>1. ASSUME pc' \in {"idle", "batch"}, UNCHANGED backoff PROVE RetriesBounded'
    BY <1>1 DEF backoff
  <1>2. ASSUME NEW r \in Rates, NEW n \in 1 .. MaxDue, NEW d \in BOOLEAN, StartDeleting(r, n, d)
        PROVE  RetriesBounded'
    BY <1>1, <1>2 DEF StartDeleting
  <1>3. ASSUME Succeed \/ Fail PROVE RetriesBounded'
    BY <1>1, <1>3 DEF Succeed, Fail, NextResource
  <1>4. CASE EndDeleting \/ GiveUp  BY <1>1, <1>3, <1>4 DEF EndDeleting, GiveUp
  <1>5. CASE WaitForBatch  BY <1>5 DEF WaitForBatch, Most
  <1>6. CASE WaitForAttempt  BY <1>6 DEF WaitForAttempt, IsExhausted, backoff
  <1>7. CASE Send  BY <1>3, <1>7 DEF Send, backoff
  <1>8. CASE Receive
    <2>1. NextPause(pause) <= Most(Duration, Cap)  BY DEF NextPause, Least, Most
    <2>2. CASE ~(Succeed \/ Fail)  BY <1>8, <2>1, <2>2 DEF Receive
    <2> QED  BY <1>3, <2>2
  <1>9. CASE WakeUp  BY <1>9 DEF WakeUp, backoff
  <1>10. CASE Tick  BY <1>10 DEF Tick, Most
  <1>11. CASE Restart  BY <1>11 DEF Restart, Most
  <1>12. CASE OpenWindow \/ UNCHANGED vars  BY <1>12 DEF OpenWindow, vars, backoff
  <1> QED
    BY <1>2, <1>4, <1>5, <1>6, <1>7, <1>8, <1>9, <1>10, <1>11, <1>12 DEF Next, Work

\* The worker's steps all lower what is left of the run.
LEMMA WorkLowers ==
    ASSUME TypeOK, RetriesBounded, Work PROVE pc' = "idle" \/ Lower
  <1> USE BackoffAssumption DEF TypeOK, RetriesBounded
  <1>1. ASSUME pc \notin {"idle", "batch"}, Succeed \/ Fail PROVE Lower
    BY <1>1 DEF Succeed, Fail, NextResource, Lower
  <1>2. CASE EndDeleting  BY <1>2 DEF EndDeleting
  <1>3. CASE WaitForBatch  BY <1>3 DEF WaitForBatch, Lower, Left
  <1>4. CASE WaitForAttempt  BY <1>4 DEF WaitForAttempt, IsExhausted, backoff, Lower, Left
  <1>5. CASE GiveUp  BY <1>1, <1>5 DEF GiveUp
  <1>6. CASE Send  BY <1>1, <1>6 DEF Send, backoff, Lower, Left
  <1>7. CASE Receive  BY <1>1, <1>7 DEF Receive, Lower, Left
  <1>8. CASE WakeUp  BY <1>8 DEF WakeUp, backoff, Lower, Left
  <1> QED  BY <1>2, <1>3, <1>4, <1>5, <1>6, <1>7, <1>8 DEF Work

\* Time never takes a token from the worker, and gives some while it has none.
LEMMA TickBrings ==
    ASSUME TypeOK, pc # "idle", Tick PROVE Nearer
  <1> USE SecondAssumption DEF TypeOK
  <1>1. sleep' <= sleep /\ (sleep = 0 \/ sleep' < sleep)  BY DEF Tick
  <1>2. limiter.rate * Second \in Nat /\ Second <= limiter.rate * Second
    <2>1. limiter.rate \in Nat \ {0}  OBVIOUS
    <2>2. Second * 1 <= Second * limiter.rate  BY <2>1, TimesMonotone
    <2> QED  BY <2>1, <2>2
  <1>3. limiter'.units = Least(limiter.units + limiter.rate, limiter.rate * Second)
    BY DEF Tick, Earn
  <1>4. limiter'.units >= limiter.units /\ (HasToken \/ limiter'.units > limiter.units)
    <2> DEFINE full == limiter.rate * Second
    <2>1. full \in Nat /\ Second <= full /\ limiter.units <= full  BY <1>2
    <2>2. limiter'.units = Least(limiter.units + limiter.rate, full)  BY <1>3
    <2> HIDE DEF full
    <2> QED  BY <2>1, <2>2 DEF Least, HasToken
  <1> QED  BY <1>1, <1>4 DEF Nearer

\* Every step of the worker brings the run closer to its end, and no other step takes it
\* back: a run has a bounded number of rounds, each pause is over in time, and a worker
\* without a token earns one, whatever the rate (deleteResourceWithBackoffShared, Backoff.Next,
\* RateLimiter.Wait).  What RunEnds adds is that time passes and the worker runs.
THEOREM RunAdvances ==
    Spec => [][pc # "idle" =>
                  pc' = "idle" \/ Lower \/ (UNCHANGED <<pc, due, step>> /\ ~Work /\ Nearer)]_vars
  <1> DEFINE Advances ==
        pc # "idle" =>
            pc' = "idle" \/ Lower \/ (UNCHANGED <<pc, due, step>> /\ ~Work /\ Nearer)
  <1>1. ASSUME TypeOK, RetriesBounded, Next PROVE Advances
    <2> SUFFICES ASSUME pc # "idle", ~Work, pc' # "idle"
                 PROVE  UNCHANGED <<pc, due, step>> /\ Nearer
      BY <1>1, WorkLowers
    <2>1. CASE Tick  BY <1>1, <2>1, TickBrings DEF Tick
    <2>2. CASE OpenWindow
      <3>1. UNCHANGED <<limiter, pc, due, step, sleep>>  BY <2>2 DEF OpenWindow, backoff
      <3>2. limiter.units \in Nat /\ sleep \in Nat  BY <1>1 DEF TypeOK
      <3>3. ~Tick
        <4>1. watch.left = 0 /\ watch'.left = Second  BY <2>2 DEF OpenWindow, Closed
        <4>2. Tick => watch'.left = 0  BY <4>1 DEF Tick, Closed
        <4> QED  BY <4>1, <4>2, SecondAssumption
      <3> QED  BY <3>1, <3>2, <3>3 DEF Nearer
    <2>3. ~Restart /\ \A r \in Rates, n \in 1 .. MaxDue, d \in BOOLEAN : ~StartDeleting(r, n, d)
      BY DEF Restart, StartDeleting
    <2> QED  BY <1>1, <2>1, <2>2, <2>3 DEF Next
  <1>2. Init => RetriesBounded
    BY BackoffAssumption DEF Init, RetriesBounded, Most
  <1>3. TypeOK /\ RetriesBounded /\ [Next]_vars => [Advances]_vars
    BY <1>1
  <1> HIDE DEF Advances
  <1>4. Spec => [][Advances]_vars
    BY <1>2, <1>3, RetriesInductive, BucketTyped, PTL DEF Spec
  <1> QED  BY <1>4 DEF Advances
=============================================================================
