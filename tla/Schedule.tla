-------------------------------- MODULE Schedule --------------------------------
(***************************************************************************)
(* When a word is due again (sm2.ts, src-tauri/srs).  The backend computes *)
(* it, and the page does when the backend does not answer, by the same     *)
(* rules.  Ease factors count ten-thousandths, stability and difficulty    *)
(* hundredths; a quotient of FSRS is rounded at every step, so its last    *)
(* digit may differ from that of the code's floating-point numbers.        *)
(***************************************************************************)
EXTENDS Integers, FiniteSetsExt

Never == -100            \* lastReviewedAt of a word never reviewed

\* What getOrCreateEntry gives a new word
NewPlan == [repetition |-> 0, interval |-> 0, efactor |-> 25000, stability |-> 0,
            difficulty |-> 500, reviewed |-> Never]

Bounded(n, lo, hi) == Min({hi, Max({n, lo})})

\* calculateSM2: a lapse starts anew, and the ease is never below 1.3.
Sm2(q, p) ==
  LET missed == 5 - q
      ease == p.efactor + 1000 - missed * (800 + 200 * missed)
  IN  [p EXCEPT
        !.repetition = IF q >= 3 THEN @ + 1 ELSE 0,
        !.interval = CASE q < 3 \/ p.repetition = 0 -> 1
                       [] q >= 3 /\ p.repetition = 1 -> 6
                       [] OTHER -> (@ * p.efactor + 5000) \div 10000,
        !.efactor = Max({13000, ease})]

Rating(q) == CASE q < 3 -> "again" [] q = 3 -> "hard" [] q = 4 -> "good" [] OTHER -> "easy"

FirstStability == [again |-> 100, hard |-> 200, good |-> 400, easy |-> 700]
Boost == [hard |-> 120, good |-> 225, easy |-> 340]
Harder == [again |-> 115, hard |-> 45, good |-> -15, easy |-> -65]

\* stability times the boosts of the rating, of the difficulty, and of being
\* overdue: 1 + 1.4 (1 - r), where r = 9s / (9s + elapsed)
Grown(rating, s, d, elapsed) ==
  LET boosted == (((s * Boost[rating]) \div 100) * (2200 - d)) \div 1200
      grown == boosted + (boosted * 140 * elapsed) \div (9 * s + 100 * elapsed)
  IN  IF rating = "hard" THEN Min({grown, (s * 160) \div 100}) ELSE grown

\* 0.45 to 0.65 of it is left, and no less than a day
Lapsed(s, elapsed) ==
  Max({100, (s * 45) \div 100 + (((s * 20) \div 100) * 9 * s) \div (9 * s + 100 * elapsed)})

\* calculateFSRS, elapsed days after the last review
Fsrs(q, p, elapsed) ==
  LET rating == Rating(q)
      s == Max({10, IF p.stability > 0 THEN p.stability ELSE 100 * p.interval})
      d == Bounded(p.difficulty, 100, 1000)
      next == IF p.reviewed = Never /\ p.stability = 0 THEN FirstStability[rating]
              ELSE IF rating = "again" THEN Lapsed(s, elapsed)
              ELSE Grown(rating, s, d, elapsed)
  IN  [p EXCEPT
        !.repetition = IF rating = "again" THEN 0 ELSE @ + 1,
        !.interval = IF rating = "again" THEN 1 ELSE Max({1, (next + 50) \div 100}),
        !.stability = next,
        !.difficulty = Bounded(d + Harder[rating], 100, 1000)]

\* elapsedDaysSince: two days may be nearly a day more or less than their
\* distance apart.
Elapsed(reviewed, day) ==
  IF reviewed = Never THEN {0} ELSE {n \in (day - reviewed - 1)..(day - reviewed + 1) : n >= 0}

\* srs::review, applyReview: the plans a grade may lead to
Reviewed(algorithm, q, p, day) ==
  {[plan EXCEPT !.reviewed = day] :
     plan \in IF algorithm = "fsrs" THEN {Fsrs(q, p, n) : n \in Elapsed(p.reviewed, day)}
              ELSE {Sm2(q, p)}}
===============================================================================
