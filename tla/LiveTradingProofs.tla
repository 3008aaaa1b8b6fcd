-------------------- MODULE LiveTradingProofs --------------------
(***************************************************************************)
(* Theorems of the two components on the path of a live order: the stage   *)
(* controller, which allows it, and the live gate, which holds it for a    *)
(* reviewer.                                                               *)
(***************************************************************************)
EXTENDS StageHistory, LiveGate, FiniteSetTheorems, TLAPS

(***************************************************************************)
(* StageController and StageHistory, for every capital cap, symbol set, order *)
(* and equity.  A state is Sound when it has its type and satisfies the    *)
(* parts of the safety invariants; every operation of the controller maps  *)
(* sound states to sound states, and every copy of the state in the system *)
(* is one that some operation made.  The second half is about the          *)
(* controller's past, through crashes, restarts and the saves of           *)
(* enable_live.py beside it.                                               *)
(***************************************************************************)

Sound(s) ==
    /\ s \in LiveState
    /\ FloorsOrderedIn(s)
    /\ RatchetIsLadderIn(s)
    /\ DeRiskMatchesIn(s)
    /\ HaltBelowHardFloorIn(s)
    /\ ExposureCappedIn(s)

\* A calendar week is a number.
LEMMA WeekType == \A d \in Nat : WeekOf(d) \in Nat
  BY StageAssumption DEF WeekOf

\* On a mark at or above the starting equity, each rung of the ladder lies
\* between the hard floor and half a percent below the mark.
LEMMA LadderBounds ==
    ASSUME NEW h \in Nat, Cap <= h
    PROVE  /\ Ladder(h) \in Nat
           /\ HardFloor <= Ladder(h)
           /\ ClearOf(h, Ladder(h))
  BY StageAssumption, SMT DEF Ladder, HardFloor, Cents, ClearOf

\* A higher high-water mark never has a lower rung.
LEMMA LadderMonotone ==
    ASSUME NEW h \in Nat, NEW g \in Nat, h <= g
    PROVE  Ladder(h) <= Ladder(g)
  BY StageAssumption, SMT DEF Ladder, Cents

\* An equity clear of a floor is not below it.
LEMMA ClearIsAbove ==
    ASSUME NEW e \in Nat, NEW f \in Nat, ClearOf(e, f)
    PROVE  ~ (Cents(e) < f)
  BY SMT DEF ClearOf, Cents

\* A state made afresh is sound: it starts on the first rung, not de-risked.
LEMMA FreshSound ==
    ASSUME NEW d \in Nat
    PROVE  Sound(Fresh(d))
<1>1. Cap \in Nat /\ HardFloor \in Nat /\ Ladder(Cap) = HardFloor
  BY StageAssumption, SMT DEF Ladder, HardFloor, Cents
<1>2. Fresh(d) \in LiveState
  BY <1>1, WeekType, SMT DEF Fresh, LiveState, NotHalted
<1>3. ClearOf(Cap, HardFloor) /\ ~ (Cents(Cap) < HardFloor) /\ Cents(0) <= MaxDayExposure
  BY StageAssumption, SMT DEF ClearOf, Cents, HardFloor, MaxDayExposure
<1>4. Cardinality({}) <= MaxOpen
  BY FS_EmptySet, StageAssumption, SMT
<1>5. FloorsOrderedIn(Fresh(d)) /\ RatchetIsLadderIn(Fresh(d))
  BY <1>1, <1>3, SMT DEF FloorsOrderedIn, RatchetIsLadderIn, Fresh
<1>6. DeRiskMatchesIn(Fresh(d)) /\ HaltBelowHardFloorIn(Fresh(d))
  BY <1>3, SMT DEF DeRiskMatchesIn, HaltBelowHardFloorIn, Fresh
<1>7. ExposureCappedIn(Fresh(d))
  BY <1>3, <1>4, SMT DEF ExposureCappedIn, Fresh
<1> QED
  BY <1>2, <1>5, <1>6, <1>7 DEF Sound

\* Rolling the day keeps the type, and of the fields the invariants read it
\* can change only the day's exposure, to zero.
LEMMA RollKeeps ==
    ASSUME NEW s \in LiveState, NEW d \in Nat
    PROVE  /\ Rolled(s, d) \in LiveState
           /\ Rolled(s, d).hwm = s.hwm
           /\ Rolled(s, d).trailing_floor = s.trailing_floor
           /\ Rolled(s, d).de_risk_flag = s.de_risk_flag
           /\ Rolled(s, d).open_symbols = s.open_symbols
           /\ Rolled(s, d).halt = s.halt
           /\ Rolled(s, d).today_new_exposure \in {0, s.today_new_exposure}
<1> DEFINE p == IF s.today_date # d THEN 0 ELSE s.today_realized_pnl
           n == IF s.today_date # d THEN 0 ELSE s.today_new_exposure
           w == WeekOf(d)
           q == IF s.week_iso # w THEN 0 ELSE s.week_realized_pnl
           r == [s EXCEPT !.today_date = d, !.today_realized_pnl = p,
                          !.today_new_exposure = n, !.week_iso = w,
                          !.week_realized_pnl = q]
<1>1. p \in Int /\ n \in Nat /\ q \in Int /\ w \in Nat
  BY WeekType, SMT DEF LiveState
<1>2. n \in {0, s.today_new_exposure}
  BY SMT
<1>3. Rolled(s, d) = r
  BY Zenon DEF Rolled, LiveState
<1> HIDE DEF p, n, w, q
<1>4. r \in LiveState
  BY <1>1, Zenon DEF LiveState
<1>5. /\ r.hwm = s.hwm /\ r.trailing_floor = s.trailing_floor
      /\ r.de_risk_flag = s.de_risk_flag /\ r.open_symbols = s.open_symbols
      /\ r.halt = s.halt /\ r.today_new_exposure = n
  BY Zenon DEF LiveState
<1> QED
  BY <1>2, <1>3, <1>4, <1>5, Zenon

\* The de-risk rule is a truth value, and matches the equity it was given.
LEMMA DeRiskRule ==
    ASSUME NEW flag \in BOOLEAN, NEW e \in Nat, NEW f \in Nat
    PROVE  /\ DeRiskAfter(flag, e, f) \in BOOLEAN
           /\ ~ (Cents(e) < HardFloor) =>
                /\ Cents(e) < f => DeRiskAfter(flag, e, f)
                /\ ClearOf(e, f) => ~ DeRiskAfter(flag, e, f)
  BY ClearIsAbove, Zenon DEF DeRiskAfter

\* A tick keeps a state sound, whatever the equity and the day.
LEMMA TickSound ==
    ASSUME NEW s, Sound(s), NEW d \in Nat, NEW e \in Nat
    PROVE  Sound(Ticked(s, d, e))
<1> DEFINE r == Rolled(s, d)
           h == IF e > r.hwm THEN e ELSE r.hwm
           f == TrailingFloor(r, h)
           b == DeRiskAfter(r.de_risk_flag, e, f)
           k == HaltAfter(r, e)
           t == Ticked(s, d, e)
<1>1. /\ s \in LiveState
      /\ s.hwm \in Nat /\ s.trailing_floor \in Nat /\ s.today_new_exposure \in Nat
      /\ s.trailing_floor = Ladder(s.hwm)
      /\ Cap <= s.hwm
      /\ Cap \in Nat /\ HardFloor \in Nat
  BY StageAssumption, SMT DEF Sound, LiveState, FloorsOrderedIn, RatchetIsLadderIn, HardFloor
<1>2. /\ r \in LiveState
      /\ r.hwm = s.hwm /\ r.trailing_floor = s.trailing_floor
      /\ r.open_symbols = s.open_symbols
      /\ r.today_new_exposure \in {0, s.today_new_exposure}
  BY <1>1, RollKeeps, Zenon
<1>3. r.de_risk_flag \in BOOLEAN /\ r.halt \in HaltReasons \union {NotHalted}
  <2> HIDE DEF r
  <2> QED
    BY <1>2, Zenon DEF LiveState
<1>4. t = [r EXCEPT !.current_equity = e, !.hwm = h, !.trailing_floor = f,
                    !.de_risk_flag = b, !.halt = k, !.resumed = FALSE]
  BY Zenon DEF Ticked
<1> HIDE DEF r, t
<1>5. h \in Nat /\ s.hwm <= h /\ e <= h /\ Cap <= h
  BY <1>1, <1>2, SMT
<1> HIDE DEF h
<1>6. f = Ladder(h) /\ f \in Nat
  <2>1. Ladder(s.hwm) <= Ladder(h) /\ Ladder(h) \in Nat
    BY <1>1, <1>5, LadderMonotone, LadderBounds, SMT
  <2> QED
    BY <1>1, <1>2, <2>1, SMT DEF TrailingFloor
<1> HIDE DEF f
<1>7. k \in HaltReasons \union {NotHalted}
  BY <1>3, SMT DEF HaltAfter, HaltReasons
<1>8. b \in BOOLEAN
  BY <1>3, <1>6, DeRiskRule, Zenon
<1>9. /\ t \in LiveState
      /\ t.current_equity = e /\ t.hwm = h /\ t.trailing_floor = f
      /\ t.de_risk_flag = b /\ t.halt = k
      /\ t.open_symbols = r.open_symbols
      /\ t.today_new_exposure = r.today_new_exposure
  <2> DEFINE u == [r EXCEPT !.current_equity = e, !.hwm = h, !.trailing_floor = f,
                            !.de_risk_flag = b, !.halt = k, !.resumed = FALSE]
  <2> HIDE DEF b, k
  <2>1. u \in LiveState
    BY <1>2, <1>5, <1>6, <1>7, <1>8, Zenon DEF LiveState
  <2>2. /\ u.current_equity = e /\ u.hwm = h /\ u.trailing_floor = f
        /\ u.de_risk_flag = b /\ u.halt = k
        /\ u.open_symbols = r.open_symbols
        /\ u.today_new_exposure = r.today_new_exposure
    BY <1>2, Zenon DEF LiveState
  <2>3. t = u
    BY <1>4, Zenon
  <2> HIDE DEF u
  <2> QED
    BY <2>1, <2>2, <2>3, Zenon
<1>10. FloorsOrderedIn(t) /\ RatchetIsLadderIn(t)
  <2> HIDE DEF b, k
  <2> QED
    BY <1>5, <1>6, <1>9, LadderBounds, SMT DEF FloorsOrderedIn, RatchetIsLadderIn
<1>11. DeRiskMatchesIn(t)
  <2> HIDE DEF k
  <2> QED
    BY <1>3, <1>6, <1>9, DeRiskRule, Zenon DEF DeRiskMatchesIn
<1>12. HaltBelowHardFloorIn(t)
  <2>1. Cents(e) < HardFloor => k # NotHalted
    BY SMT DEF HaltAfter, NotHalted
  <2> HIDE DEF b, k
  <2> QED
    BY <1>9, <2>1, Zenon DEF HaltBelowHardFloorIn
<1>13. ExposureCappedIn(t)
  <2>1. ExposureCappedIn(s)
    BY Zenon DEF Sound
  <2>2. Cents(0) <= MaxDayExposure
    BY <1>1, SMT DEF Cents, MaxDayExposure
  <2> HIDE DEF b, k
  <2> QED
    BY <1>2, <1>9, <2>1, <2>2, SMT DEF ExposureCappedIn
<1> QED
  BY <1>9, <1>10, <1>11, <1>12, <1>13, Zenon DEF Sound, t

\* An operation that leaves the mark and the floors alone leaves alone what
\* the invariants say of them.
LEMMA SameMark ==
    ASSUME NEW s, Sound(s), NEW t \in LiveState,
           t.current_equity = s.current_equity, t.hwm = s.hwm,
           t.trailing_floor = s.trailing_floor, t.de_risk_flag = s.de_risk_flag
    PROVE  FloorsOrderedIn(t) /\ RatchetIsLadderIn(t) /\ DeRiskMatchesIn(t)
  BY Zenon DEF Sound, FloorsOrderedIn, RatchetIsLadderIn, DeRiskMatchesIn

\* The open symbols of a state are finitely many.
LEMMA OpenFinite ==
    ASSUME NEW s \in LiveState
    PROVE  IsFiniteSet(s.open_symbols)
<1>1. s.open_symbols \subseteq Symbols
  BY Zenon DEF LiveState
<1> QED
  BY <1>1, FS_Subset, StageAssumption, Zenon

\* An order the prechecks allow keeps both caps when it is filled: the day's
\* exposure was checked with the order in it, and one symbol at most is new.
LEMMA FillSound ==
    ASSUME NEW s, Sound(s), NEW o \in Orders, Allows(s, o)
    PROVE  Sound(Filled(s, o))
<1> DEFINE n == s.today_new_exposure + o.notional
           op == s.open_symbols \union {o.symbol}
           t == Filled(s, o)
<1>1. s \in LiveState
  BY Zenon DEF Sound
<1>2. /\ s.today_new_exposure \in Nat
      /\ s.open_symbols \subseteq Symbols
      /\ o.symbol \in Symbols
      /\ o.notional \in Nat
  BY <1>1, StageAssumption, SMT DEF LiveState, Allows
<1>3. n \in Nat /\ Cents(n) <= MaxDayExposure
  BY <1>2, SMT DEF Allows
<1>4. op \in SUBSET Symbols
  BY <1>2, Zenon
<1>5. Cardinality(op) <= MaxOpen
  <2>1. /\ IsFiniteSet(s.open_symbols)
        /\ Cardinality(s.open_symbols) \in Nat
        /\ Cardinality(s.open_symbols) < MaxOpen
    BY <1>1, OpenFinite, FS_CardinalityType, Zenon DEF Allows
  <2>2. \/ Cardinality(op) = Cardinality(s.open_symbols)
        \/ Cardinality(op) = Cardinality(s.open_symbols) + 1
    BY <2>1, FS_AddElement, Zenon
  <2> QED
    BY <2>1, <2>2, StageAssumption, SMT
<1>6. t = [s EXCEPT !.today_new_exposure = n, !.open_symbols = op]
  BY <1>1, Zenon DEF Filled, LiveState
<1> HIDE DEF n, op
<1>7. /\ t \in LiveState
      /\ t.current_equity = s.current_equity /\ t.hwm = s.hwm
      /\ t.trailing_floor = s.trailing_floor /\ t.de_risk_flag = s.de_risk_flag
      /\ t.halt = s.halt /\ t.resumed = s.resumed
      /\ t.today_new_exposure = n /\ t.open_symbols = op
  <2> DEFINE u == [s EXCEPT !.today_new_exposure = n, !.open_symbols = op]
  <2>1. u \in LiveState
    BY <1>1, <1>3, <1>4, Zenon DEF LiveState
  <2>2. /\ u.current_equity = s.current_equity /\ u.hwm = s.hwm
        /\ u.trailing_floor = s.trailing_floor /\ u.de_risk_flag = s.de_risk_flag
        /\ u.halt = s.halt /\ u.resumed = s.resumed
        /\ u.today_new_exposure = n /\ u.open_symbols = op
    BY <1>1, Zenon DEF LiveState
  <2>3. t = u
    BY <1>6, Zenon
  <2> HIDE DEF u, t
  <2> QED
    BY <2>1, <2>2, <2>3, Zenon
<1> HIDE DEF t
<1>8. FloorsOrderedIn(t) /\ RatchetIsLadderIn(t) /\ DeRiskMatchesIn(t)
  BY <1>7, SameMark, Zenon
<1>9. HaltBelowHardFloorIn(t)
  BY <1>7, Zenon DEF Sound, HaltBelowHardFloorIn
<1>10. ExposureCappedIn(t)
  BY <1>3, <1>5, <1>7, Zenon DEF ExposureCappedIn
<1> QED
  BY <1>7, <1>8, <1>9, <1>10, Zenon DEF Sound, t

\* A close changes no mark; it can only shrink the open symbols.
LEMMA CloseSound ==
    ASSUME NEW s, Sound(s), NEW sym \in Symbols, NEW pnl \in PnLs,
           NEW clean \in BOOLEAN
    PROVE  Sound(Closed(s, sym, pnl, clean))
<1> DEFINE p == s.today_realized_pnl + pnl
           q == s.week_realized_pnl + pnl
           n == s.closed_trade_count + 1
           c == IF clean THEN s.clean_stock_trades + 1 ELSE s.clean_stock_trades
           l == IF pnl < 0 THEN s.consec_losses_system + 1 ELSE 0
           op == s.open_symbols \ {sym}
           t == Closed(s, sym, pnl, clean)
           u == [s EXCEPT !.today_realized_pnl = p, !.week_realized_pnl = q,
                          !.closed_trade_count = n, !.clean_stock_trades = c,
                          !.consec_losses_system = l, !.open_symbols = op]
<1>1. s \in LiveState
  BY Zenon DEF Sound
<1>2. p \in Int /\ q \in Int /\ n \in Nat /\ c \in Nat /\ l \in Nat
  BY <1>1, StageAssumption, SMT DEF LiveState
<1>3. op \in SUBSET Symbols
  BY <1>1, Zenon DEF LiveState
<1>4. Cardinality(op) <= MaxOpen
  <2>1. /\ IsFiniteSet(s.open_symbols)
        /\ Cardinality(s.open_symbols) <= MaxOpen
        /\ op \subseteq s.open_symbols
    BY <1>1, OpenFinite, Zenon DEF Sound, ExposureCappedIn
  <2>2. /\ Cardinality(op) <= Cardinality(s.open_symbols)
        /\ IsFiniteSet(op)
    BY <2>1, FS_Subset, Zenon
  <2> QED
    BY <2>1, <2>2, FS_CardinalityType, StageAssumption, SMT
<1>5. t = u
  BY <1>1, Zenon DEF Closed, LiveState
<1> HIDE DEF p, q, n, c, l, op
<1>6. u \in LiveState
  BY <1>1, <1>2, <1>3, Zenon DEF LiveState
<1>7. /\ u.current_equity = s.current_equity /\ u.hwm = s.hwm
      /\ u.trailing_floor = s.trailing_floor /\ u.de_risk_flag = s.de_risk_flag
      /\ u.halt = s.halt /\ u.resumed = s.resumed
      /\ u.today_new_exposure = s.today_new_exposure /\ u.open_symbols = op
  BY <1>1, Zenon DEF LiveState
<1> HIDE DEF u, t
<1>8. FloorsOrderedIn(u) /\ RatchetIsLadderIn(u) /\ DeRiskMatchesIn(u)
  BY <1>6, <1>7, SameMark, Zenon
<1>9. HaltBelowHardFloorIn(u) /\ ExposureCappedIn(u)
  BY <1>4, <1>7, Zenon DEF Sound, HaltBelowHardFloorIn, ExposureCappedIn
<1>10. Sound(u)
  BY <1>6, <1>8, <1>9, Zenon DEF Sound
<1> QED
  BY <1>5, <1>10, Zenon DEF t

\* A reviewer's clear_halt leaves a RESUME line behind.
LEMMA ClearSound ==
    ASSUME NEW s, Sound(s)
    PROVE  Sound([s EXCEPT !.halt = NotHalted, !.resumed = TRUE])
<1> DEFINE u == [s EXCEPT !.halt = NotHalted, !.resumed = TRUE]
<1>1. s \in LiveState
  BY Zenon DEF Sound
<1>2. u \in LiveState
  BY <1>1, Zenon DEF LiveState
<1>3. /\ u.current_equity = s.current_equity /\ u.hwm = s.hwm
      /\ u.trailing_floor = s.trailing_floor /\ u.de_risk_flag = s.de_risk_flag
      /\ u.resumed
      /\ u.today_new_exposure = s.today_new_exposure
      /\ u.open_symbols = s.open_symbols
  BY <1>1, Zenon DEF LiveState
<1> HIDE DEF u
<1>4. FloorsOrderedIn(u) /\ RatchetIsLadderIn(u) /\ DeRiskMatchesIn(u)
  BY <1>2, <1>3, SameMark, Zenon
<1>5. HaltBelowHardFloorIn(u) /\ ExposureCappedIn(u)
  BY <1>3, Zenon DEF Sound, HaltBelowHardFloorIn, ExposureCappedIn
<1>6. Sound(u)
  BY <1>2, <1>4, <1>5, Zenon DEF Sound
<1> QED
  BY <1>6, Zenon DEF u

\* enable_live.py changes nothing but the mode.
LEMMA ModeSound ==
    ASSUME NEW s, Sound(s), NEW isLive \in BOOLEAN
    PROVE  Sound([s EXCEPT !.live_mode = isLive])
<1> DEFINE u == [s EXCEPT !.live_mode = isLive]
<1>1. s \in LiveState
  BY Zenon DEF Sound
<1>2. u \in LiveState
  BY <1>1, Zenon DEF LiveState
<1>3. /\ u.current_equity = s.current_equity /\ u.hwm = s.hwm
      /\ u.trailing_floor = s.trailing_floor /\ u.de_risk_flag = s.de_risk_flag
      /\ u.halt = s.halt /\ u.resumed = s.resumed
      /\ u.today_new_exposure = s.today_new_exposure
      /\ u.open_symbols = s.open_symbols
  BY <1>1, Zenon DEF LiveState
<1> HIDE DEF u
<1>4. FloorsOrderedIn(u) /\ RatchetIsLadderIn(u) /\ DeRiskMatchesIn(u)
  BY <1>2, <1>3, SameMark, Zenon
<1>5. HaltBelowHardFloorIn(u) /\ ExposureCappedIn(u)
  BY <1>3, Zenon DEF Sound, HaltBelowHardFloorIn, ExposureCappedIn
<1>6. Sound(u)
  BY <1>2, <1>4, <1>5, Zenon DEF Sound
<1> QED
  BY <1>6, Zenon DEF u

-----------------------------------------------------------------------------
(***************************************************************************)
(* The inductive invariant: every copy of the state is sound, and a save   *)
(* is under way only in a running trader (so FinishSave has a state to     *)
(* write).                                                                 *)
(***************************************************************************)
IInv ==
    /\ mem \in LiveState \union {Down}
    /\ disk \in LiveState \union {Unreadable}
    /\ saving \in BOOLEAN
    /\ cli \in [cmd : {"enable", "disable"}, st : LiveState] \union {Down}
    /\ today \in Nat
    /\ env \in [crashes : Nat, cliRuns : Nat]
    /\ saving => mem # Down
    /\ mem # Down => Sound(mem)
    /\ disk # Unreadable => Sound(disk)
    /\ cli # Down => Sound(cli.st)

\* The invariant is TypeOK with the parts of the others.
LEMMA InvImplies ==
    ASSUME IInv
    PROVE  /\ TypeOK /\ FloorsOrdered /\ RatchetIsLadder
           /\ DeRiskMatches /\ HaltBelowHardFloor /\ ExposureCapped
<1>1. TypeOK
  BY Zenon DEF IInv, TypeOK
<1> QED
  BY <1>1, Zenon DEF IInv, Sound, InEveryCopy, FloorsOrdered, RatchetIsLadder,
     DeRiskMatches, HaltBelowHardFloor, ExposureCapped

\* Before anything runs, there is no copy of the state.
LEMMA InitInv ==
    ASSUME Init
    PROVE  IInv
<1>1. env \in [crashes : Nat, cliRuns : Nat] /\ today \in Nat
  BY SMT DEF Init
<1>2. saving \in BOOLEAN /\ (saving => mem # Down)
  BY Zenon DEF Init
<1> QED
  BY <1>1, <1>2, Zenon DEF Init, IInv

\* A mutation by the trader keeps the invariant when the state it makes is
\* sound.
LEMMA MutateInv ==
    ASSUME IInv, NEW s, Sound(s), Mutate(s)
    PROVE  IInv'
<1>1. s \in LiveState /\ s # Down
  BY SentinelAssumption, Zenon DEF Sound
<1> QED
  BY <1>1, Zenon DEF IInv, Mutate

\* The invariant is inductive: one case per action.
LEMMA NextInv ==
    ASSUME IInv, [Next]_vars
    PROVE  IInv'
<1>0. today \in Nat /\ Fresh(today) \in LiveState /\ Sound(Fresh(today))
  BY FreshSound, Zenon DEF IInv, Sound
<1>1. CASE Boot
  <2>1. CASE disk = Unreadable
    <3>1. Fresh(today) # Down
      BY <1>0, SentinelAssumption, Zenon
    <3>2. mem' = Fresh(today) /\ saving' = TRUE
      BY <1>1, <2>1, Zenon DEF Boot
    <3> QED
      BY <1>0, <1>1, <3>1, <3>2, Zenon DEF IInv, Boot
  <2>2. CASE disk # Unreadable
    <3>1. mem' = disk /\ saving' = FALSE
      BY <1>1, <2>2, Zenon DEF Boot
    <3> QED
      BY <1>1, <2>2, <3>1, Zenon DEF IInv, Boot
  <2> QED
    BY <2>1, <2>2, Zenon
<1>2. CASE FinishSave
  BY <1>2, Zenon DEF IInv, FinishSave
<1>3. CASE Crash
  <2>1. env' \in [crashes : Nat, cliRuns : Nat]
    BY <1>3, SMT DEF IInv, Crash
  <2> QED
    BY <1>3, <2>1, Zenon DEF IInv, Crash
<1>4. CASE NextDay
  <2>1. today' \in Nat
    BY <1>4, SMT DEF IInv, NextDay
  <2> QED
    BY <1>4, <2>1, Zenon DEF IInv, NextDay
<1>5. CASE \E e \in Equities : Tick(e)
  <2>1. PICK e \in Equities : Tick(e)
    BY <1>5
  <2>2. e \in Nat /\ mem # Down /\ Sound(mem)
    BY <2>1, StageAssumption, Zenon DEF IInv, Tick
  <2>3. Sound(Ticked(mem, today, e)) /\ Mutate(Ticked(mem, today, e))
    BY <1>0, <2>1, <2>2, TickSound, Zenon DEF Tick
  <2> QED
    BY <2>3, MutateInv, Zenon
<1>6. CASE \E o \in Orders : MirrorOrder(o)
  <2>1. PICK o \in Orders : MirrorOrder(o)
    BY <1>6
  <2>2. Sound(mem) /\ Allows(mem, o) /\ Mutate(Filled(mem, o))
    BY <2>1, Zenon DEF IInv, MirrorOrder
  <2>3. Sound(Filled(mem, o))
    BY <2>2, FillSound, Zenon
  <2> QED
    BY <2>2, <2>3, MutateInv, Zenon
<1>7. CASE \E sym \in Symbols, pnl \in PnLs, clean \in BOOLEAN :
              RecordClose(sym, pnl, clean)
  <2>1. PICK sym \in Symbols, pnl \in PnLs, clean \in BOOLEAN :
              RecordClose(sym, pnl, clean)
    BY <1>7
  <2>2. Sound(mem) /\ Mutate(Closed(mem, sym, pnl, clean))
    BY <2>1, Zenon DEF IInv, RecordClose
  <2>3. Sound(Closed(mem, sym, pnl, clean))
    BY <2>2, CloseSound, Zenon
  <2> QED
    BY <2>2, <2>3, MutateInv, Zenon
<1>8. CASE ClearHalt
  <2> DEFINE t == [mem EXCEPT !.halt = NotHalted, !.resumed = TRUE]
  <2>1. Sound(mem) /\ Mutate(t)
    BY <1>8, Zenon DEF IInv, ClearHalt
  <2>2. Sound(t)
    BY <2>1, ClearSound, Zenon
  <2> HIDE DEF t
  <2> QED
    BY <2>1, <2>2, MutateInv, Zenon
<1>9. CASE \E cmd \in {"enable", "disable"} : CliStart(cmd)
  <2>1. PICK cmd \in {"enable", "disable"} : CliStart(cmd)
    BY <1>9
  <2>2. env' \in [crashes : Nat, cliRuns : Nat]
    BY <2>1, SMT DEF IInv, CliStart
  <2>3. PICK st \in LiveState :
           /\ Sound(st) /\ disk' = st /\ cli' = [cmd |-> cmd, st |-> st]
    BY <1>0, <2>1, Zenon DEF IInv, CliStart
  <2>4. /\ cli' \in [cmd : {"enable", "disable"}, st : LiveState]
        /\ cli'.st = st
    BY <2>3, Zenon
  <2> QED
    BY <2>1, <2>2, <2>3, <2>4, Zenon DEF IInv, CliStart
<1>10. CASE CliCommit
  <2> DEFINE isLive == cli.cmd = "enable"
             t == [cli.st EXCEPT !.live_mode = isLive]
  <2>1. isLive \in BOOLEAN
    OBVIOUS
  <2>2. Sound(cli.st) /\ disk' \in {disk, t} /\ cli' = Down
    BY <1>10, Zenon DEF IInv, CliCommit
  <2> HIDE DEF isLive
  <2>3. Sound(t) /\ t \in LiveState
    BY <2>1, <2>2, ModeSound, Zenon DEF Sound
  <2> HIDE DEF t
  <2> QED
    BY <1>10, <2>2, <2>3, Zenon DEF IInv, CliCommit
<1>11. CASE CliAbort
  BY <1>11, Zenon DEF IInv, CliAbort
<1>12. CASE UNCHANGED vars
  BY <1>12, Zenon DEF IInv, vars
<1> QED
  BY <1>1, <1>2, <1>3, <1>4, <1>5, <1>6, <1>7, <1>8, <1>9, <1>10, <1>11, <1>12,
     Zenon DEF Next

\* The invariant holds in every reachable state.
THEOREM Invariance == Spec => []IInv
<1>1. Init => IInv
  BY InitInv, Zenon
<1>2. IInv /\ [Next]_vars => IInv'
  BY NextInv, Zenon
<1> QED
  BY <1>1, <1>2, PTL DEF Spec

\* Every variable keeps its type, for every cap, symbol set and order.
THEOREM TypeCorrect == Spec => []TypeOK
  BY Invariance, InvImplies, PTL

\* The ladder, with crashes, restarts and command-line saves: no copy of the
\* state ever has a trailing floor outside [hard floor, 0.5% under the mark].
THEOREM FloorsStayOrdered == Spec => []FloorsOrdered
  BY Invariance, InvImplies, PTL

\* The ratchet of _compute_trailing_floor never binds.
THEOREM RatchetNeverBinds == Spec => []RatchetIsLadder
  BY Invariance, InvImplies, PTL

\* The half-size rule follows the equity of the last tick in every copy.
THEOREM DeRiskFollowsEquity == Spec => []DeRiskMatches
  BY Invariance, InvImplies, PTL

\* Below the hard floor there is a halt, or a reviewer's clearance of it.
THEOREM BreachHalts == Spec => []HaltBelowHardFloor
  BY Invariance, InvImplies, PTL

\* The stage's exposure and position caps hold of every copy.
THEOREM CapsHold == Spec => []ExposureCapped
  BY Invariance, InvImplies, PTL

\* No step of a running controller leaves a halt but the reviewer's clearance.
THEOREM HaltsStay == Spec => HaltIsSticky
<1> DEFINE Sticky ==
       mem # Down /\ mem' # Down /\ mem.halt # NotHalted /\ mem'.halt # mem.halt
         => mem'.resumed /\ mem'.halt = NotHalted
<1>1. ASSUME IInv, Next
      PROVE  Sticky
  <2>1. CASE Boot \/ Crash
    BY <2>1, Zenon DEF Boot, Crash
  <2>2. CASE \E e \in Equities : Tick(e)
    <3>1. PICK e \in Equities : mem' = Ticked(mem, today, e)
      BY <2>2, Zenon DEF Tick, Mutate
    <3>2. CASE mem # Down /\ mem.halt # NotHalted
      <4> DEFINE r == Rolled(mem, today)
      <4>1. mem \in LiveState /\ today \in Nat
        BY <1>1, <3>2, Zenon DEF IInv
      <4>2. r \in LiveState /\ r.halt = mem.halt
        BY <4>1, RollKeeps, Zenon
      <4>3. HaltAfter(r, e) = mem.halt
        BY <3>2, <4>2, Zenon DEF HaltAfter
      <4> HIDE DEF r
      <4>4. mem'.halt = HaltAfter(r, e)
        BY <3>1, <4>2, Zenon DEF Ticked, LiveState, r
      <4> QED
        BY <4>3, <4>4, Zenon
    <3> QED
      BY <3>2, Zenon
  <2>3. CASE \E o \in Orders : MirrorOrder(o)
    BY <2>3, Zenon DEF MirrorOrder, Allows
  <2>4. CASE \E sym \in Symbols, pnl \in PnLs, clean \in BOOLEAN :
               RecordClose(sym, pnl, clean)
    <3>1. PICK sym \in Symbols, pnl \in PnLs, clean \in BOOLEAN :
             mem # Down /\ mem' = Closed(mem, sym, pnl, clean)
      BY <2>4, Zenon DEF RecordClose, Mutate
    <3>2. mem \in LiveState
      BY <1>1, <3>1, Zenon DEF IInv
    <3>3. mem'.halt = mem.halt
      BY <3>1, <3>2, Zenon DEF Closed, LiveState
    <3> QED
      BY <3>3, Zenon
  <2>5. CASE ClearHalt
    <3>1. mem # Down /\ mem' = [mem EXCEPT !.halt = NotHalted, !.resumed = TRUE]
      BY <2>5, Zenon DEF ClearHalt, Mutate
    <3>2. mem \in LiveState
      BY <1>1, <3>1, Zenon DEF IInv
    <3>3. mem'.halt = NotHalted /\ mem'.resumed
      BY <3>1, <3>2, Zenon DEF LiveState
    <3> QED
      BY <3>3, Zenon
  <2>6. CASE mem' = mem
    BY <2>6, Zenon
  <2>7. FinishSave \/ NextDay \/ CliCommit \/ CliAbort
          \/ (\E cmd \in {"enable", "disable"} : CliStart(cmd)) => mem' = mem
    BY Zenon DEF FinishSave, NextDay, CliCommit, CliAbort, CliStart
  <2> QED
    BY <1>1, <2>1, <2>2, <2>3, <2>4, <2>5, <2>6, <2>7, Zenon DEF Next
<1>2. IInv /\ [Next]_vars => [Sticky]_vars
  BY <1>1, Zenon
<1> QED
  BY <1>2, Invariance, PTL DEF Spec, HaltIsSticky

-----------------------------------------------------------------------------
(***************************************************************************)
(* The controller's past.                                                  *)
(***************************************************************************)

\* A running state keeps its mode and moves its marks only up.
OnCourse(s, t) ==
    /\ t.live_mode = s.live_mode
    /\ t.hwm >= s.hwm
    /\ t.trailing_floor >= s.trailing_floor

\* What c crashes add to the cap of a calendar day.
Budget(c) == 2 * c * MaxDayExposure

(***************************************************************************)
(* The orders of the day are within the crashes' budget, one cap if the    *)
(* state has rolled to this day (what was booked before it rolled), and    *)
(* what the state itself has booked since.                                 *)
(***************************************************************************)
DayAccounted ==
    IF mem = Down
      THEN Cents(hist.dayExposure) <= Budget(env.crashes)
      ELSE Cents(hist.dayExposure) <=
             Budget(env.crashes)
               + (IF mem.today_date = today THEN MaxDayExposure ELSE 0)
               + Cents(mem.today_new_exposure)

HInv ==
    /\ IInv
    /\ hist \in [dayExposure : Nat, enabled : BOOLEAN, mode : {"shadow", "live"}]
    /\ LiveNeedsPhrase
    /\ DayAccounted

-----------------------------------------------------------------------------
\* The budget grows by two caps with each crash.
LEMMA BudgetGrows ==
    ASSUME NEW c \in Nat
    PROVE  /\ MaxDayExposure \in Nat /\ Budget(c) \in Nat
           /\ Budget(c + 1) = Budget(c) + 2 * MaxDayExposure
           /\ 2 * (1 + c) * MaxDayExposure = Budget(c) + 2 * MaxDayExposure
  BY StageAssumption, SMT DEF Budget, MaxDayExposure

\* A tick rolls the day's exposure and moves the marks only up.
LEMMA TickCourse ==
    ASSUME NEW s, Sound(s), NEW d \in Nat, NEW e \in Nat
    PROVE  /\ OnCourse(s, Ticked(s, d, e))
           /\ Ticked(s, d, e).today_date = d
           /\ Ticked(s, d, e).today_new_exposure =
                IF s.today_date = d THEN s.today_new_exposure ELSE 0
<1> DEFINE r == Rolled(s, d)
           h == IF e > r.hwm THEN e ELSE r.hwm
           f == TrailingFloor(r, h)
           b == DeRiskAfter(r.de_risk_flag, e, f)
           k == HaltAfter(r, e)
<1>1. s \in LiveState /\ s.hwm \in Nat /\ s.trailing_floor \in Nat /\ Cap <= s.hwm
  BY SMT DEF Sound, LiveState, FloorsOrderedIn
<1>2. /\ r \in LiveState /\ r.hwm = s.hwm /\ r.trailing_floor = s.trailing_floor
      /\ r.live_mode = s.live_mode /\ r.today_date = d
      /\ r.today_new_exposure = IF s.today_date # d THEN 0 ELSE s.today_new_exposure
  <2>1. r \in LiveState /\ r.hwm = s.hwm /\ r.trailing_floor = s.trailing_floor
    BY <1>1, RollKeeps, Zenon
  <2>2. /\ r.live_mode = s.live_mode /\ r.today_date = d
        /\ r.today_new_exposure = IF s.today_date # d THEN 0 ELSE s.today_new_exposure
    BY <1>1, Zenon DEF Rolled, LiveState
  <2> QED
    BY <2>1, <2>2
<1>3. Ticked(s, d, e) = [r EXCEPT !.current_equity = e, !.hwm = h, !.trailing_floor = f,
                                  !.de_risk_flag = b, !.halt = k, !.resumed = FALSE]
  BY Zenon DEF Ticked
<1> HIDE DEF r
<1>4. h \in Nat /\ h >= s.hwm
  BY <1>1, <1>2, SMT
<1> HIDE DEF h
<1>5. Ladder(h) \in Nat
  BY <1>1, <1>4, LadderBounds, StageAssumption, SMT
<1>6. f >= s.trailing_floor
  BY <1>1, <1>2, <1>5, SMT DEF TrailingFloor
<1> HIDE DEF f, b, k
<1>7. /\ Ticked(s, d, e).live_mode = r.live_mode
      /\ Ticked(s, d, e).hwm = h /\ Ticked(s, d, e).trailing_floor = f
      /\ Ticked(s, d, e).today_date = r.today_date
      /\ Ticked(s, d, e).today_new_exposure = r.today_new_exposure
  BY <1>2, <1>3, Zenon DEF LiveState
<1> QED
  BY <1>2, <1>4, <1>6, <1>7, SMT DEF OnCourse

\* A fill books the order on the state's day; a close and a clearance book
\* nothing.
LEMMA FillCourse ==
    ASSUME NEW s, Sound(s), NEW o \in Orders
    PROVE  /\ OnCourse(s, Filled(s, o)) /\ Filled(s, o).today_date = s.today_date
           /\ Filled(s, o).today_new_exposure = s.today_new_exposure + o.notional
<1>1. s \in LiveState /\ s.hwm \in Nat /\ s.trailing_floor \in Nat
  BY SMT DEF Sound, LiveState
<1>2. /\ Filled(s, o).live_mode = s.live_mode /\ Filled(s, o).hwm = s.hwm
      /\ Filled(s, o).trailing_floor = s.trailing_floor
      /\ Filled(s, o).today_date = s.today_date
      /\ Filled(s, o).today_new_exposure = s.today_new_exposure + o.notional
  BY <1>1, Zenon DEF Filled, LiveState
<1> QED
  BY <1>1, <1>2, SMT DEF OnCourse

LEMMA CloseCourse ==
    ASSUME NEW s, Sound(s), NEW sym \in Symbols, NEW pnl \in PnLs, NEW clean \in BOOLEAN
    PROVE  LET t == Closed(s, sym, pnl, clean)
           IN  /\ OnCourse(s, t) /\ t.today_date = s.today_date
               /\ t.today_new_exposure = s.today_new_exposure
<1> DEFINE t == Closed(s, sym, pnl, clean)
<1>1. s \in LiveState /\ s.hwm \in Nat /\ s.trailing_floor \in Nat
  BY SMT DEF Sound, LiveState
<1>2. /\ t.live_mode = s.live_mode /\ t.hwm = s.hwm
      /\ t.trailing_floor = s.trailing_floor
      /\ t.today_date = s.today_date
      /\ t.today_new_exposure = s.today_new_exposure
  BY <1>1, Zenon DEF Closed, LiveState
<1> HIDE DEF t
<1>3. OnCourse(s, t)
  BY <1>1, <1>2, SMT DEF OnCourse
<1> QED
  BY <1>2, <1>3, Zenon DEF t

LEMMA ClearCourse ==
    ASSUME NEW s, Sound(s)
    PROVE  LET t == [s EXCEPT !.halt = NotHalted, !.resumed = TRUE]
           IN  /\ OnCourse(s, t) /\ t.today_date = s.today_date
               /\ t.today_new_exposure = s.today_new_exposure
<1> DEFINE t == [s EXCEPT !.halt = NotHalted, !.resumed = TRUE]
<1>1. s \in LiveState /\ s.hwm \in Nat /\ s.trailing_floor \in Nat
  BY SMT DEF Sound, LiveState
<1>2. /\ t.live_mode = s.live_mode /\ t.hwm = s.hwm
      /\ t.trailing_floor = s.trailing_floor
      /\ t.today_date = s.today_date
      /\ t.today_new_exposure = s.today_new_exposure
  BY <1>1, Zenon DEF LiveState
<1> HIDE DEF t
<1>3. OnCourse(s, t)
  BY <1>1, <1>2, SMT DEF OnCourse
<1> QED
  BY <1>2, <1>3, Zenon DEF t

\* Every step of the history is one of the controller.
LEMMA HistoryFollows ==
    ASSUME [HNext]_hvars
    PROVE  [Next]_vars
  BY DEF HNext, HMirrorOrder, HNextDay, HCliCommit, HUnrecorded, Next, hvars, vars

\* A mutation that books nothing new on the state's day: a tick, a close, a
\* clearance.  A tick to a new day turns what was booked into the one cap.
LEMMA BookNothing ==
    ASSUME HInv, NEW s, Mutate(s), OnCourse(mem, s), UNCHANGED hist, IInv',
           \/ s.today_date = mem.today_date /\ s.today_new_exposure = mem.today_new_exposure
           \/ /\ s.today_date = today
              /\ s.today_new_exposure =
                   IF mem.today_date = today THEN mem.today_new_exposure ELSE 0
    PROVE  HInv' /\ OnCourse(mem, mem')
<1>1. /\ mem # Down /\ mem' = s /\ disk' = Unreadable /\ hist' = hist
      /\ cli' = cli /\ today' = today /\ env' = env
  BY Zenon DEF Mutate
<1>2. mem' # Down
  BY <1>1, Zenon DEF IInv, Mutate
<1>3. LiveNeedsPhrase'
  BY <1>1, Zenon DEF HInv, LiveNeedsPhrase, InEveryCopy, LiveAfterEnable, OnCourse
<1>4. DayAccounted'
  <2>1. /\ hist.dayExposure \in Nat /\ env.crashes \in Nat
        /\ mem.today_new_exposure \in Nat /\ Cents(mem.today_new_exposure) <= MaxDayExposure
    BY <1>1, SMT DEF HInv, IInv, Sound, ExposureCappedIn, LiveState
  <2>2. MaxDayExposure \in Nat /\ Budget(env.crashes) \in Nat
    BY <2>1, BudgetGrows
  <2>3. Cents(hist.dayExposure) <= Budget(env.crashes)
               + (IF mem.today_date = today THEN MaxDayExposure ELSE 0)
               + Cents(mem.today_new_exposure)
    BY <1>1, Zenon DEF HInv, DayAccounted
  <2>4. Cents(hist.dayExposure) <= Budget(env.crashes)
               + (IF s.today_date = today THEN MaxDayExposure ELSE 0)
               + Cents(s.today_new_exposure)
    BY <2>1, <2>2, <2>3, SMT DEF Cents
  <2> QED
    BY <1>1, <1>2, <2>4, Zenon DEF DayAccounted
<1> QED
  BY <1>1, <1>3, <1>4, Zenon DEF HInv

\* A step that leaves the trader's memory and its day alone, and whose copies
\* elsewhere are old ones, fresh ones, or live after an enable.
LEMMA OtherCopies ==
    ASSUME HInv, IInv', mem' = mem, today' = today, env'.crashes = env.crashes,
           hist'.dayExposure = hist.dayExposure, hist.enabled => hist'.enabled,
           hist' \in [dayExposure : Nat, enabled : BOOLEAN, mode : {"shadow", "live"}],
           disk' # Unreadable /\ disk'.live_mode => hist'.enabled,
           cli' # Down /\ cli'.st.live_mode => hist'.enabled
    PROVE  HInv'
<1>1. LiveNeedsPhrase'
  BY Zenon DEF HInv, LiveNeedsPhrase, InEveryCopy, LiveAfterEnable
<1>2. DayAccounted'
  BY Zenon DEF HInv, DayAccounted
<1> QED
  BY <1>1, <1>2, Zenon DEF HInv

LEMMA InitHInv == HInit => HInv
<1> SUFFICES ASSUME HInit
             PROVE  HInv
  OBVIOUS
<1>1. IInv
  BY InitInv DEF HInit
<1>2. hist \in [dayExposure : Nat, enabled : BOOLEAN, mode : {"shadow", "live"}]
  BY DEF HInit
<1>3. LiveNeedsPhrase
  BY DEF HInit, Init, LiveNeedsPhrase, InEveryCopy
<1>4. DayAccounted
  BY BudgetGrows DEF HInit, Init, DayAccounted, Cents
<1> QED
  BY <1>1, <1>2, <1>3, <1>4 DEF HInv

\* An order the mirror queues is booked on the state's day as well.
LEMMA OrderStep ==
    ASSUME HInv, IInv', NEW o \in Orders, HMirrorOrder(o)
    PROVE  HInv' /\ OnCourse(mem, mem')
<1>1. /\ mem # Down /\ mem' = Filled(mem, o) /\ Sound(mem) /\ mem' # Down
      /\ cli' = cli /\ today' = today /\ env' = env /\ disk' = Unreadable
  BY SentinelAssumption, Zenon DEF HMirrorOrder, MirrorOrder, Mutate, HInv, IInv
<1>2. /\ OnCourse(mem, mem') /\ mem'.today_date = mem.today_date
      /\ mem'.today_new_exposure = mem.today_new_exposure + o.notional
  BY <1>1, FillCourse
<1>3. /\ hist' \in [dayExposure : Nat, enabled : BOOLEAN, mode : {"shadow", "live"}]
      /\ hist'.dayExposure = hist.dayExposure + o.notional /\ hist'.enabled = hist.enabled
  BY StageAssumption DEF HMirrorOrder, HInv
<1>4. LiveNeedsPhrase'
  BY <1>1, <1>2, <1>3, Zenon DEF HInv, LiveNeedsPhrase, InEveryCopy, LiveAfterEnable, OnCourse
<1>5. DayAccounted'
  <2>1. /\ hist.dayExposure \in Nat /\ env.crashes \in Nat /\ o.notional \in Nat
        /\ mem.today_new_exposure \in Nat
    BY <1>1, StageAssumption, SMT DEF HInv, IInv, Sound, LiveState
  <2>2. MaxDayExposure \in Nat /\ Budget(env.crashes) \in Nat
    BY <2>1, BudgetGrows
  <2>3. Cents(hist.dayExposure) <= Budget(env.crashes)
               + (IF mem.today_date = today THEN MaxDayExposure ELSE 0)
               + Cents(mem.today_new_exposure)
    BY <1>1, Zenon DEF HInv, DayAccounted
  <2>4. Cents(hist'.dayExposure) <= Budget(env.crashes)
               + (IF mem.today_date = today THEN MaxDayExposure ELSE 0)
               + Cents(mem'.today_new_exposure)
    BY <1>2, <1>3, <2>1, <2>2, <2>3, SMT DEF Cents
  <2> QED
    BY <1>1, <1>2, <2>4, Zenon DEF DayAccounted
<1> QED
  BY <1>2, <1>3, <1>4, <1>5, Zenon DEF HInv

\* The steps of the trader itself that queue nothing.
LEMMA MutationStep ==
    ASSUME HInv, IInv', UNCHANGED hist,
           \/ ClearHalt
           \/ \E e \in Equities : Tick(e)
           \/ \E sym \in Symbols, pnl \in PnLs, clean \in BOOLEAN : RecordClose(sym, pnl, clean)
    PROVE  HInv' /\ OnCourse(mem, mem')
<1>1. mem # Down /\ Sound(mem) /\ today \in Nat
  BY DEF ClearHalt, Tick, RecordClose, HInv, IInv
<1>2. CASE ClearHalt
  BY <1>1, <1>2, ClearCourse, BookNothing DEF ClearHalt
<1>3. ASSUME NEW e \in Equities, Tick(e)
      PROVE  HInv' /\ OnCourse(mem, mem')
  BY <1>1, <1>3, TickCourse, BookNothing, StageAssumption DEF Tick
<1>4. ASSUME NEW sym \in Symbols, NEW pnl \in PnLs, NEW clean \in BOOLEAN, RecordClose(sym, pnl, clean)
      PROVE  HInv' /\ OnCourse(mem, mem')
  BY <1>1, <1>4, CloseCourse, BookNothing DEF RecordClose
<1> QED
  BY <1>2, <1>3, <1>4

\* A restart: what it loads was accounted for, and so was what a crash lost.
LEMMA RestartStep ==
    ASSUME HInv, IInv', UNCHANGED hist, Boot \/ Crash
    PROVE  HInv'
<1>1. /\ hist.dayExposure \in Nat /\ env.crashes \in Nat /\ today \in Nat
      /\ MaxDayExposure \in Nat /\ Budget(env.crashes) \in Nat
      /\ Budget(env.crashes + 1) = Budget(env.crashes) + 2 * MaxDayExposure
  <2>1. hist.dayExposure \in Nat /\ env.crashes \in Nat /\ today \in Nat
    BY DEF HInv, IInv
  <2> QED
    BY <2>1, BudgetGrows
<1>2. LiveNeedsPhrase'
  <2>1. ~ Fresh(today).live_mode
    BY DEF Fresh
  <2>2. /\ disk' = disk /\ cli' = cli /\ hist' = hist
        /\ \/ mem' = Down
           \/ mem' = Fresh(today)
           \/ disk # Unreadable /\ mem' = disk
    <3>1. CASE Boot
      BY <3>1, Zenon DEF Boot
    <3>2. CASE Crash
      BY <3>2, Zenon DEF Crash
    <3> QED
      BY <3>1, <3>2
  <2> QED
    BY <2>1, <2>2, Zenon DEF HInv, LiveNeedsPhrase, InEveryCopy, LiveAfterEnable
<1>3. CASE Boot
  <2>1. /\ mem = Down /\ mem' # Down /\ Sound(mem') /\ today' = today /\ env' = env /\ hist' = hist
    BY <1>1, <1>3, FreshSound, SentinelAssumption DEF Boot, HInv, IInv, Sound
  <2>2. Cents(mem'.today_new_exposure) \in Nat
    BY <2>1, SMT DEF Sound, LiveState, Cents
  <2>3. Cents(hist.dayExposure) <= Budget(env.crashes) /\ Cents(hist.dayExposure) \in Nat
    BY <1>1, <2>1, SMT DEF HInv, DayAccounted, Cents
  <2>4. DayAccounted'
    BY <1>1, <2>1, <2>2, <2>3 DEF DayAccounted
  <2> QED
    BY <1>2, <2>4 DEF HInv
<1>4. CASE Crash
  <2>1. /\ mem # Down /\ Sound(mem) /\ mem' = Down /\ env'.crashes = env.crashes + 1
        /\ mem.today_new_exposure \in Nat /\ Cents(mem.today_new_exposure) <= MaxDayExposure
    BY <1>4 DEF Crash, HInv, IInv, Sound, ExposureCappedIn, LiveState
  <2>2. Cents(hist.dayExposure) <= Budget(env.crashes)
               + (IF mem.today_date = today THEN MaxDayExposure ELSE 0)
               + Cents(mem.today_new_exposure)
    BY <2>1, Zenon DEF HInv, DayAccounted
  <2>3. Cents(hist.dayExposure) <= Budget(env.crashes + 1)
    BY <1>1, <2>1, <2>2, SMT DEF Cents
  <2> QED
    BY <1>2, <2>1, <2>3, Zenon DEF HInv, DayAccounted
<1> QED
  BY <1>3, <1>4

\* The steps beside the trader: the file, the clock and the command line.
LEMMA BesideStep ==
    ASSUME HInv, IInv',
           \/ HNextDay
           \/ HCliCommit
           \/ /\ FinishSave \/ CliAbort \/ \E cmd \in {"enable", "disable"} : CliStart(cmd)
              /\ UNCHANGED hist
    PROVE  HInv' /\ mem' = mem
<1>1. CASE HNextDay
  <2>1. /\ mem' = mem /\ disk' = disk /\ cli' = cli /\ env' = env
        /\ hist' \in [dayExposure : Nat, enabled : BOOLEAN, mode : {"shadow", "live"}]
        /\ hist'.dayExposure = 0 /\ hist'.enabled = hist.enabled
    BY <1>1 DEF HNextDay, NextDay, HInv
  <2>2. LiveNeedsPhrase'
    BY <2>1, Zenon DEF HInv, LiveNeedsPhrase, InEveryCopy, LiveAfterEnable
  <2>3. DayAccounted'
    <3>1. env.crashes \in Nat
      BY DEF HInv, IInv
    <3>2. MaxDayExposure \in Nat /\ Budget(env.crashes) \in Nat
      BY <3>1, BudgetGrows
    <3>3. mem # Down => Cents(mem.today_new_exposure) \in Nat
      BY SMT DEF HInv, IInv, Sound, LiveState, Cents
    <3>4. Cents(0) = 0
      BY SMT DEF Cents
    <3> QED
      BY <2>1, <3>2, <3>3, <3>4 DEF DayAccounted
  <2> QED
    BY <2>1, <2>2, <2>3 DEF HInv
<1>2. CASE HCliCommit
  <2>1. /\ mem' = mem /\ today' = today /\ env' = env /\ cli' = Down /\ cli # Down
        /\ disk' = IF cli.st.live_mode = (cli.cmd = "enable") THEN disk
                   ELSE [cli.st EXCEPT !.live_mode = (cli.cmd = "enable")]
    BY <1>2, Zenon DEF HCliCommit, CliCommit
  <2>2. hist' = [hist EXCEPT !.enabled = @ \/ (cli.cmd = "enable"),
                             !.mode = IF cli.st.live_mode = (cli.cmd = "enable") THEN @
                                      ELSE IF cli.cmd = "enable" THEN "live" ELSE "shadow"]
    BY <1>2, Zenon DEF HCliCommit
  <2>3. /\ hist' \in [dayExposure : Nat, enabled : BOOLEAN, mode : {"shadow", "live"}]
        /\ hist'.dayExposure = hist.dayExposure
        /\ hist'.enabled <=> hist.enabled \/ cli.cmd = "enable"
    BY <2>2, Zenon DEF HInv
  <2>4. cli.st \in LiveState
    BY <2>1, Zenon DEF HInv, IInv
  <2>5. disk # Unreadable /\ disk.live_mode => hist.enabled
    BY Zenon DEF HInv, LiveNeedsPhrase, InEveryCopy, LiveAfterEnable
  <2>6. [cli.st EXCEPT !.live_mode = (cli.cmd = "enable")].live_mode <=> cli.cmd = "enable"
    BY <2>4, Zenon DEF LiveState
  <2>7. disk' # Unreadable /\ disk'.live_mode => hist'.enabled
    BY <2>1, <2>3, <2>5, <2>6, Zenon
  <2> QED
    BY <2>1, <2>3, <2>7, OtherCopies
<1>3. CASE (FinishSave \/ CliAbort \/ \E cmd \in {"enable", "disable"} : CliStart(cmd)) /\ UNCHANGED hist
  <2>1. mem' = mem /\ today' = today /\ env'.crashes = env.crashes
    BY <1>3 DEF FinishSave, CliAbort, CliStart, HInv, IInv
  <2>2. hist' \in [dayExposure : Nat, enabled : BOOLEAN, mode : {"shadow", "live"}] /\ hist' = hist
    BY <1>3 DEF HInv
  <2>3. ~ Fresh(today).live_mode
    BY DEF Fresh
  <2>4. disk' # Unreadable /\ disk'.live_mode => hist'.enabled
    BY <1>3, <2>3, Zenon DEF FinishSave, CliAbort, CliStart, HInv, IInv, LiveNeedsPhrase, InEveryCopy, LiveAfterEnable
  <2>5. ASSUME NEW cmd \in {"enable", "disable"}, NEW st
        PROVE  [cmd |-> cmd, st |-> st].st = st
    OBVIOUS
  <2>6. cli' # Down /\ cli'.st.live_mode => hist'.enabled
    <3>1. CASE cli' = cli
      BY <2>2, <3>1, Zenon DEF HInv, LiveNeedsPhrase, InEveryCopy, LiveAfterEnable
    <3>2. CASE CliAbort
      BY <3>2, Zenon DEF CliAbort
    <3>3. ASSUME NEW cmd \in {"enable", "disable"}, CliStart(cmd)
          PROVE  cli' # Down /\ cli'.st.live_mode => hist'.enabled
      <4>1. \/ cli'.st = Fresh(today)
            \/ disk # Unreadable /\ cli'.st = disk
        BY <2>5, <3>3, Zenon DEF CliStart
      <4> QED
        BY <2>2, <2>3, <4>1, Zenon DEF HInv, LiveNeedsPhrase, InEveryCopy, LiveAfterEnable
    <3> QED
      BY <1>3, <3>1, <3>2, <3>3 DEF FinishSave
  <2> QED
    BY <2>1, <2>2, <2>4, <2>6, OtherCopies
<1> QED
  BY <1>1, <1>2, <1>3

LEMMA StepHInv ==
    ASSUME HInv, [HNext]_hvars
    PROVE  /\ HInv'
           /\ mem # Down /\ mem' # Down => mem' = mem \/ OnCourse(mem, mem')
<1>1. IInv'
  BY HistoryFollows, NextInv DEF HInv
<1>2. ASSUME NEW o \in Orders, HMirrorOrder(o)
      PROVE  HInv' /\ OnCourse(mem, mem')
  BY <1>1, <1>2, OrderStep
<1>3. CASE HNextDay \/ HCliCommit
  BY <1>1, <1>3, BesideStep
<1>4. CASE HUnrecorded
  <2>1. CASE Boot \/ Crash
    <3>1. HInv'
      BY <1>1, <1>4, <2>1, RestartStep DEF HUnrecorded
    <3>2. mem = Down \/ mem' = Down
      BY <2>1 DEF Boot, Crash
    <3> QED
      BY <3>1, <3>2
  <2>2. CASE \/ ClearHalt
             \/ \E e \in Equities : Tick(e)
             \/ \E sym \in Symbols, pnl \in PnLs, clean \in BOOLEAN : RecordClose(sym, pnl, clean)
    BY <1>1, <1>4, <2>2, MutationStep DEF HUnrecorded
  <2>3. CASE FinishSave \/ CliAbort \/ \E cmd \in {"enable", "disable"} : CliStart(cmd)
    BY <1>1, <1>4, <2>3, BesideStep DEF HUnrecorded
  <2> QED
    BY <1>4, <2>1, <2>2, <2>3 DEF HUnrecorded
<1>5. CASE UNCHANGED hvars
  <2>1. /\ mem' = mem /\ disk' = disk /\ cli' = cli /\ today' = today /\ env' = env /\ hist' = hist
    BY <1>5 DEF hvars
  <2> QED
    BY <1>1, <2>1, Zenon DEF HInv, LiveNeedsPhrase, InEveryCopy, LiveAfterEnable, DayAccounted
<1> QED
  BY <1>2, <1>3, <1>4, <1>5 DEF HNext

LEMMA HistoryInvariance == HSpec => []HInv
<1>1. HInv /\ [HNext]_hvars => HInv'
  BY StepHInv
<1> QED
  BY <1>1, InitHInv, PTL DEF HSpec

\* Through crashes, restarts and stale saves, the trader's memory, the file
\* and the command line's copy are live only after a committed enable.
THEOREM PhraseGuardsLive == HSpec => []LiveNeedsPhrase
<1>1. HInv => LiveNeedsPhrase
  BY DEF HInv
<1> QED
  BY <1>1, HistoryInvariance, PTL

\* A calendar day takes at most two caps of new exposure, and two more for
\* each crash: what record_fill books is lost only with the state itself.
THEOREM DayIsBounded == HSpec => []DayExposureBounded
<1>1. ASSUME HInv
      PROVE  DayExposureBounded
  <2>1. env.crashes \in Nat /\ hist.dayExposure \in Nat
    BY <1>1 DEF HInv, IInv
  <2>2. /\ MaxDayExposure \in Nat /\ Budget(env.crashes) \in Nat
        /\ 2 * (1 + env.crashes) * MaxDayExposure = Budget(env.crashes) + 2 * MaxDayExposure
    BY <2>1, BudgetGrows
  <2>3. mem # Down => mem.today_new_exposure \in Nat /\ Cents(mem.today_new_exposure) <= MaxDayExposure
    BY <1>1 DEF HInv, IInv, Sound, ExposureCappedIn, LiveState
  <2>4. Cents(hist.dayExposure) <= Budget(env.crashes) + 2 * MaxDayExposure
    <3>1. CASE mem = Down
      BY <1>1, <2>1, <2>2, <3>1, SMT DEF HInv, DayAccounted, Cents
    <3>2. CASE mem # Down
      BY <1>1, <2>1, <2>2, <2>3, <3>2, SMT DEF HInv, DayAccounted, Cents
    <3> QED
      BY <3>1, <3>2
  <2> QED
    BY <2>2, <2>4 DEF DayExposureBounded
<1> QED
  BY <1>1, HistoryInvariance, PTL

\* No step of a running trader changes its mode or lowers its high-water mark
\* or trailing floor, whatever enable_live.py saves beside it.
THEOREM CourseIsKept == HSpec => RunningKeepsCourse
<1> DEFINE Kept ==
       mem # Down /\ mem' # Down =>
         /\ mem'.live_mode = mem.live_mode
         /\ mem'.hwm >= mem.hwm
         /\ mem'.trailing_floor >= mem.trailing_floor
<1>1. ASSUME HInv, [HNext]_hvars
      PROVE  Kept
  <2>1. mem # Down => mem.hwm \in Nat /\ mem.trailing_floor \in Nat
    BY <1>1 DEF HInv, IInv, Sound, LiveState
  <2>2. mem # Down /\ mem' # Down => mem' = mem \/ OnCourse(mem, mem')
    BY <1>1, StepHInv
  <2> QED
    BY <2>1, <2>2 DEF OnCourse
<1>2. HInv /\ [HNext]_hvars => [Kept]_hvars
  BY <1>1
<1> QED
  BY <1>2, HistoryInvariance, PTL DEF HSpec, RunningKeepsCourse

-----------------------------------------------------------------------------
(***************************************************************************)
(* LiveGate, for any trade ids, timeout and number of crashes and of       *)
(* overlapping operations: what survives the unlocked rewrites of the      *)
(* pending file, and how often an order can be decided because of them.    *)
(***************************************************************************)

USE DEF Threads, Statuses

(* Nothing is decided without its evidence, whoever holds the rows: the      *)
(* clock has started, and both properties of the race hold together.         *)
GateInv == GateTypeOK /\ now > 0 /\ NoForgedStatus /\ NoLateApproval

-----------------------------------------------------------------------------
(* Rows are no corrupt file, and reading a file always gives rows: a file    *)
(* that does not parse has none.                                             *)
LEMMA ReadingGivesRows ==
    ASSUME GateTypeOK
    PROVE  /\ NoRows \in Rows
           /\ ReadPending \in Rows
           /\ \A o \in Ids : ReadPending[o] # "absent" => file # Corrupt /\ ReadPending = file
<1>1. NoRows \in Rows
  BY DEF NoRows, Rows
<1>2. ReadPending \in Rows
  BY <1>1, CorruptAssumption DEF ReadPending, GateTypeOK
<1>3. \A o \in Ids : ReadPending[o] # "absent" => file # Corrupt /\ ReadPending = file
  BY DEF ReadPending, NoRows
<1> QED
  BY <1>1, <1>2, <1>3

(* Pruning changes only pending rows whose time has come. *)
LEMMA PruningExpires ==
    ASSUME NEW r \in Rows
    PROVE  /\ Pruned(r) \in Rows
           /\ \A o \in Ids : \/ Pruned(r)[o] = r[o] /\ (r[o] = "pending" => ~ (expires[o] <= now))
                             \/ r[o] = "pending" /\ Pruned(r)[o] = "expired" /\ expires[o] <= now
  BY DEF Pruned, Rows

(* What a decision on one row makes of the rows is again rows. *)
LEMMA RowChanged ==
    ASSUME NEW r \in Rows, NEW o \in Ids, NEW s \in Statuses
    PROVE  /\ [r EXCEPT ![o] = s] \in Rows
           /\ [r EXCEPT ![o] = s][o] = s
           /\ \A p \in Ids : p # o => [r EXCEPT ![o] = s][p] = r[p]
  BY DEF Rows

(* Initially nothing is queued and nobody has decided anything. *)
LEMMA GateInitInv == GateInit => GateInv
<1> SUFFICES ASSUME GateInit
             PROVE  GateInv
  OBVIOUS
<1> USE DEF GateInit
<1>1. NoRows \in Rows
  BY DEF NoRows, Rows
<1>2. GateTypeOK
  BY <1>1 DEF GateTypeOK, Requests
<1>3. NoForgedStatus
  BY DEF NoForgedStatus, Contents, NoRows
<1>4. NoLateApproval
  BY DEF NoLateApproval
<1> QED
  BY <1>2, <1>3, <1>4 DEF GateInv

(* An operation that has read the file and holds new rows: the types of what *)
(* it set, and the only rows that are new.                                   *)
LEMMA ReadsTyped ==
    ASSUME GateTypeOK, NEW t \in Threads, NEW q \in Requests, NEW r \in Rows, Reads(t, q, r), file' = file
    PROVE  /\ overlaps' \in Nat
           /\ pc' \in [Threads -> {"idle", "read", "writing"}]
           /\ rows' \in [Threads -> Rows]
           /\ request' \in [Threads -> Requests]
           /\ Contents' \subseteq Contents \union {r}
<1>1. overlaps' \in Nat
  BY DEF GateTypeOK, Reads
<1> QED
  BY <1>1, Zenon DEF GateTypeOK, Reads, Contents

(* What NoForgedStatus says of one reading of the rows. *)
Honest(r) ==
    \A o \in Ids :
       /\ r[o] \in {"approved", "submitted"} => clicked[o] # 0
       /\ r[o] = "expired" => expires[o] <= now
       /\ r[o] # "absent" => expires[o] # 0 /\ o \notin shadow

LEMMA ReadingIsHonest ==
    ASSUME GateTypeOK, NoForgedStatus
    PROVE  /\ Honest(ReadPending)
           /\ Honest(Pruned(ReadPending))
<1>1. Honest(ReadPending)
  <2>1. CASE file = Corrupt
    BY <2>1 DEF ReadPending, NoRows, Honest
  <2>2. CASE file # Corrupt
    BY <2>2 DEF ReadPending, NoForgedStatus, Contents, Honest
  <2> QED
    BY <2>1, <2>2
<1>2. Honest(Pruned(ReadPending))
  BY <1>1, ReadingGivesRows, PruningExpires DEF Honest
<1> QED
  BY <1>1, <1>2

(* An operation that writes honest rows over a history that stays so. *)
LEMMA ReadsStayHonest ==
    ASSUME GateTypeOK, NEW t \in Threads, NEW q \in Requests, NEW r \in Rows, Reads(t, q, r), file' = file,
           Honest(r)', \A old \in Contents \ {Corrupt} : Honest(old)'
    PROVE  NoForgedStatus'
  BY ReadsTyped DEF NoForgedStatus, Honest

(* Queueing a live order: its row is new everywhere, so no thread holds a    *)
(* status for it that its new expiry could contradict.                       *)
LEMMA QueueLiveInv == ASSUME GateInv, NEW o \in Ids, QueueLive(o) PROVE GateInv'
<1> DEFINE q == [op |-> "queue", id |-> o]
           pruned == Pruned(ReadPending)
<1> USE GateAssumption
<1>1. q \in Requests
  BY DEF Requests
<1>2. pruned \in Rows /\ Honest(pruned)
  BY ReadingGivesRows, PruningExpires, ReadingIsHonest DEF GateInv
<1>3. PICK r : r = [pruned EXCEPT ![o] = "pending"]
  OBVIOUS
<1> HIDE DEF pruned
<1>4. r \in Rows /\ r[o] = "pending" /\ \A p \in Ids : p # o => r[p] = pruned[p]
  BY <1>2, <1>3 DEF Rows
<1>5. Reads("trader", q, r) /\ file' = file
  BY <1>3 DEF QueueLive, pruned
<1> HIDE DEF q
<1>6. expires[o] = 0 /\ o \notin shadow /\ expires' = [expires EXCEPT ![o] = now + Timeout]
      /\ UNCHANGED <<raced, now, live, Logs, clicked, crashes>>
  BY DEF QueueLive
<1>7. /\ expires' \in [Ids -> Nat]
      /\ expires'[o] = now + Timeout /\ \A p \in Ids : p # o => expires'[p] = expires[p]
  BY <1>6 DEF GateInv, GateTypeOK
<1>8. GateTypeOK'
  BY <1>1, <1>4, <1>5, <1>6, <1>7, ReadsTyped, Zenon DEF GateInv, GateTypeOK, Logs
<1>9. clicked[o] = 0 /\ now + Timeout > now /\ now + Timeout # 0
  BY <1>6 DEF GateInv, GateTypeOK, NoLateApproval
<1>10. \A old \in Contents \ {Corrupt} : Honest(old)'
  BY <1>6, <1>7 DEF GateInv, NoForgedStatus, Honest, Logs
<1>11. Honest(r)'
  BY <1>2, <1>4, <1>6, <1>7, <1>9 DEF Honest, Logs
<1>12. NoForgedStatus'
  BY <1>1, <1>4, <1>5, <1>10, <1>11, ReadsStayHonest DEF GateInv
<1>13. NoLateApproval'
  BY <1>6, <1>7, <1>9 DEF GateInv, NoLateApproval
<1> QED
  BY <1>6, <1>8, <1>12, <1>13 DEF GateInv

(* Operations that read, change one row or none, and touch no expiry: what   *)
(* is left to show of each is that the rows it writes are honest.            *)
LEMMA QuietReads ==
    ASSUME GateInv, NEW t \in Threads, NEW q \in Requests, NEW r \in Rows, Reads(t, q, r),
           UNCHANGED <<file, expires, raced, now, live, Logs, clicked, crashes>>, Honest(r)
    PROVE  GateInv'
<1>1. GateTypeOK'
  BY ReadsTyped, Zenon DEF GateInv, GateTypeOK, Logs
<1>2. Honest(r)' /\ \A old \in Contents \ {Corrupt} : Honest(old)'
  BY Zenon DEF GateInv, NoForgedStatus, Honest, Logs
<1>3. NoForgedStatus'
  BY <1>2, ReadsStayHonest DEF GateInv
<1>4. NoLateApproval'
  BY Zenon DEF GateInv, NoLateApproval
<1> QED
  BY <1>1, <1>3, <1>4 DEF GateInv

(* The approval is stamped with the time at which the row was found pending  *)
(* after the prune, and a row pending after the prune has time left.         *)
LEMMA ApproveInv == ASSUME GateInv, NEW o \in Ids, Approve(o) PROVE GateInv'
<1> DEFINE r == Pruned(ReadPending)
           q == [op |-> "approve", id |-> o]
<1>1. r \in Rows /\ Honest(r) /\ [op |-> "refuse"] \in Requests /\ q \in Requests
  BY ReadingGivesRows, PruningExpires, ReadingIsHonest DEF GateInv, Requests
<1>2. ASSUME r[o] # "pending", Reads("dashboard", [op |-> "refuse"], r), UNCHANGED clicked
      PROVE  GateInv'
  BY <1>1, <1>2, QuietReads DEF Approve
<1>3. PICK n : n = [r EXCEPT ![o] = "approved"]
  OBVIOUS
<1>4. ASSUME r[o] = "pending", Reads("dashboard", q, n), clicked' = [clicked EXCEPT ![o] = now]
      PROVE  GateInv'
  <2>1. UNCHANGED <<file, expires, raced, now, live, Logs, crashes>>
    BY DEF Approve
  <2>2. now < expires[o] /\ now # 0 /\ expires[o] # 0 /\ o \notin shadow
    BY <1>1, <1>4, ReadingGivesRows, PruningExpires DEF Honest, GateInv, GateTypeOK
  <2>3. clicked' \in [Ids -> Nat] /\ clicked'[o] = now /\ \A p \in Ids : p # o => clicked'[p] = clicked[p]
    BY <1>4 DEF GateInv, GateTypeOK
  <2> HIDE DEF q, r
  <2>4. n \in Rows /\ n[o] = "approved" /\ \A p \in Ids : p # o => n[p] = r[p]
    BY <1>1, <1>3 DEF Rows
  <2>5. GateTypeOK'
    BY <1>1, <1>4, <2>1, <2>3, <2>4, ReadsTyped, Zenon DEF GateInv, GateTypeOK, Logs
  <2>6. Honest(n)'
    BY <1>1, <2>1, <2>2, <2>3, <2>4 DEF Honest, Logs
  <2>7. \A old \in Contents \ {Corrupt} : Honest(old)'
    BY <2>1, <2>2, <2>3 DEF GateInv, NoForgedStatus, Honest, Logs
  <2>8. NoForgedStatus'
    BY <1>1, <1>4, <2>1, <2>4, <2>6, <2>7, ReadsStayHonest DEF GateInv
  <2>9. NoLateApproval'
    BY <2>1, <2>2, <2>3 DEF GateInv, NoLateApproval
  <2> QED
    BY <2>1, <2>5, <2>8, <2>9 DEF GateInv
<1> QED
  BY <1>2, <1>3, <1>4 DEF Approve

LEMMA RejectInv == ASSUME GateInv, NEW o \in Ids, Reject(o) PROVE GateInv'
<1> DEFINE r == Pruned(ReadPending)
           q == [op |-> "reject", id |-> o]
           n == [r EXCEPT ![o] = "rejected"]
<1>1. r \in Rows /\ Honest(r) /\ [op |-> "refuse"] \in Requests /\ q \in Requests
  BY ReadingGivesRows, PruningExpires, ReadingIsHonest DEF GateInv, Requests
<1>2. ASSUME r[o] # "pending", Reads("dashboard", [op |-> "refuse"], r)
      PROVE  GateInv'
  BY <1>1, <1>2, QuietReads DEF Reject
<1>3. ASSUME r[o] = "pending", Reads("dashboard", q, n)
      PROVE  GateInv'
  <2> HIDE DEF r
  <2>1. n \in Rows /\ n[o] = "rejected" /\ \A p \in Ids : p # o => n[p] = r[p]
    BY <1>1, RowChanged
  <2>2. r[o] # "absent" => expires[o] # 0 /\ o \notin shadow
    BY <1>1 DEF Honest
  <2>3. Honest(n)
    BY <1>1, <1>3, <2>1, <2>2 DEF Honest
  <2> QED
    BY <1>1, <1>3, <2>1, <2>3, QuietReads DEF Reject, r
<1> QED
  BY <1>2, <1>3 DEF Reject

LEMMA ListPendingInv == ASSUME GateInv, ListPending PROVE GateInv'
<1>1. Pruned(ReadPending) \in Rows /\ Honest(Pruned(ReadPending)) /\ [op |-> "list"] \in Requests
  BY ReadingGivesRows, PruningExpires, ReadingIsHonest DEF GateInv, Requests
<1> QED
  BY <1>1, QuietReads DEF ListPending

(* A row is submitted only after it was read approved, which someone did. *)
LEMMA MarkSubmittedInv == ASSUME GateInv, NEW o \in Ids, MarkSubmitted(o) PROVE GateInv'
<1> DEFINE q == [op |-> "submit", id |-> o]
           n == [ReadPending EXCEPT ![o] = "submitted"]
<1>1. ReadPending \in Rows /\ Honest(ReadPending) /\ q \in Requests /\ ReadPending[o] = "approved"
  BY ReadingGivesRows, ReadingIsHonest DEF GateInv, Requests, MarkSubmitted
<1>2. n \in Rows /\ n[o] = "submitted" /\ \A p \in Ids : p # o => n[p] = ReadPending[p]
  BY <1>1, RowChanged
<1> HIDE DEF n
<1>3. Honest(n)
  BY <1>1, <1>2 DEF Honest
<1> QED
  BY <1>1, <1>2, <1>3, QuietReads DEF MarkSubmitted, n

(* The steps that only move rows between the threads and the file. *)
LEMMA WritesInv ==
    ASSUME GateInv, NEW t \in Threads, BeginWrite(t) \/ EndWrite(t)
    PROVE  GateInv'
<1>1. NoRows \in Rows /\ Honest(NoRows)
  BY DEF NoRows, Rows, Honest
<1>2. CASE BeginWrite(t)
  <2>1. GateTypeOK'
    BY <1>2 DEF BeginWrite, GateInv, GateTypeOK, Logs
  <2>2. Contents' \subseteq Contents \union {Corrupt}
    BY <1>2, Zenon DEF BeginWrite, Contents
  <2>3. NoForgedStatus'
    BY <1>2, <2>2 DEF BeginWrite, GateInv, NoForgedStatus, Logs
  <2>4. NoLateApproval'
    BY <1>2 DEF BeginWrite, GateInv, NoLateApproval
  <2> QED
    BY <1>2, <2>1, <2>3, <2>4 DEF GateInv, BeginWrite
<1>3. CASE EndWrite(t)
  <2>1. request[t] \in Requests
    BY DEF GateInv, GateTypeOK
  <2>2. GateTypeOK'
    <3>0. Nothing \in Requests
      BY DEF Requests
    <3>1. /\ file' \in Rows \union {Corrupt}
          /\ pc' \in [Threads -> {"idle", "read", "writing"}]
          /\ rows' \in [Threads -> Rows]
          /\ request' \in [Threads -> Requests]
          /\ raced' \in [Threads -> BOOLEAN]
          /\ UNCHANGED <<expires, now, live, clicked, overlaps, crashes>>
      BY <1>1, <1>3, <3>0 DEF EndWrite, GateInv, GateTypeOK
    <3>2. shadow' \subseteq Ids /\ approvedLog' \subseteq Ids /\ fillsLog' \subseteq Ids /\ reviews' \in [Ids -> Nat]
      BY <1>3, <2>1 DEF EndWrite, Conclude, Requests, Nothing, GateInv, GateTypeOK
    <3> QED
      BY <3>1, <3>2, Zenon DEF GateInv, GateTypeOK
  <2>3. Contents' \subseteq Contents \union {Corrupt, NoRows}
    BY <1>3, Zenon DEF EndWrite, Contents, GateInv, GateTypeOK
  <2>4. NoForgedStatus'
    BY <1>1, <1>3, <2>3 DEF EndWrite, Conclude, GateInv, NoForgedStatus, Honest
  <2>5. NoLateApproval'
    BY <1>3 DEF EndWrite, GateInv, NoLateApproval
  <2> QED
    BY <1>3, <2>2, <2>4, <2>5 DEF GateInv, EndWrite
<1> QED
  BY <1>2, <1>3

(* A shadow order has no row yet, and none is made for it afterwards. *)
LEMMA QueueShadowInv == ASSUME GateInv, NEW o \in Ids, QueueShadow(o) PROVE GateInv'
<1>1. GateTypeOK'
  BY DEF QueueShadow, GateInv, GateTypeOK
<1>2. NoForgedStatus'
  BY DEF QueueShadow, GateInv, NoForgedStatus, Contents
<1>3. NoLateApproval'
  BY DEF QueueShadow, GateInv, NoLateApproval
<1> QED
  BY <1>1, <1>2, <1>3 DEF GateInv, QueueShadow

LEMMA ClockInv == ASSUME GateInv, Clock PROVE GateInv'
<1>1. GateTypeOK'
  BY DEF Clock, GateInv, GateTypeOK, Logs
<1>2. NoForgedStatus'
  BY DEF Clock, GateInv, GateTypeOK, NoForgedStatus, Contents, Logs
<1>3. NoLateApproval'
  BY DEF Clock, GateInv, NoLateApproval
<1> QED
  BY <1>1, <1>2, <1>3 DEF GateInv, Clock, GateTypeOK

(* A crash forgets what the threads held, never what was decided. *)
LEMMA CrashRestartInv == ASSUME GateInv, CrashRestart PROVE GateInv'
<1>1. NoRows \in Rows /\ Honest(NoRows)
  BY DEF NoRows, Rows, Honest
<1>2. GateTypeOK'
  BY <1>1, GateAssumption DEF CrashRestart, GateInv, GateTypeOK, Logs, Requests
<1>3. Contents' \subseteq Contents \union {NoRows}
  BY Zenon DEF CrashRestart, Contents
<1>4. NoForgedStatus'
  BY <1>1, <1>3 DEF CrashRestart, GateInv, NoForgedStatus, Honest, Logs
<1>5. NoLateApproval'
  BY DEF CrashRestart, GateInv, NoLateApproval
<1> QED
  BY <1>2, <1>4, <1>5 DEF GateInv, CrashRestart

LEMMA StepInv == GateInv /\ [GateNext]_gateVars => GateInv'
<1> SUFFICES ASSUME GateInv, [GateNext]_gateVars
             PROVE  GateInv'
  OBVIOUS
<1>1. ASSUME NEW o \in Ids,
             QueueLive(o) \/ QueueShadow(o) \/ Approve(o) \/ Reject(o) \/ MarkSubmitted(o)
      PROVE  GateInv'
  BY <1>1, QueueLiveInv, QueueShadowInv, ApproveInv, RejectInv, MarkSubmittedInv
<1>2. CASE ListPending
  BY <1>2, ListPendingInv
<1>3. ASSUME NEW t \in Threads, BeginWrite(t) \/ EndWrite(t)
      PROVE  GateInv'
  BY <1>3, WritesInv
<1>4. CASE Clock
  BY <1>4, ClockInv
<1>5. CASE CrashRestart
  BY <1>5, CrashRestartInv
<1>6. CASE UNCHANGED gateVars
  BY <1>6 DEF gateVars, GateInv, GateTypeOK, NoForgedStatus, NoLateApproval, Contents, Logs
<1> QED
  BY <1>1, <1>2, <1>3, <1>4, <1>5, <1>6 DEF GateNext

(* Every variable keeps its type whatever the threads, the clock and the     *)
(* crashes do.                                                               *)
THEOREM GateTypeCorrect == GateSpec => []GateTypeOK
  BY GateInitInv, StepInv, PTL DEF GateSpec, GateInv

(* approve_order prunes what it read before it decides, so no interleaving   *)
(* of the two threads' rewrites approves an order at or after its expiry.    *)
THEOREM NeverApprovedLate == GateSpec => []NoLateApproval
  BY GateInitInv, StepInv, PTL DEF GateSpec, GateInv

(* Lost, repeated and garbled writes of the pending file never make a row    *)
(* approved that the reviewer did not approve, nor expire one in time, nor   *)
(* queue an order that shadow mode dropped.                                  *)
THEOREM NothingForged == GateSpec => []NoForgedStatus
  BY GateInitInv, StepInv, PTL DEF GateSpec, GateInv

-----------------------------------------------------------------------------
(***************************************************************************)
(* How often an order is decided.  A thread claims an order when the rows  *)
(* it holds have it pending, so that its write may bring it back, or when  *)
(* it is about to tell the reviewer of a decision on it.  The decisions    *)
(* told and the claims never exceed one more than the overlaps: a lone     *)
(* operation claims only what the file has pending, and one begun during   *)
(* another pays for its claim with an overlap.                             *)
(***************************************************************************)
Decides(q, o) == q.op \in {"approve", "reject"} /\ q.id = o

Claims(t, o) == pc[t] # "idle" /\ (rows[t][o] = "pending" \/ Decides(request[t], o))

Claim(t, o) == IF Claims(t, o) THEN 1 ELSE 0

CountInv ==
    /\ \A o \in Ids : reviews[o] + Claim("trader", o) + Claim("dashboard", o) <= 1 + overlaps
    /\ file # Corrupt => \A o \in Ids : file[o] = "pending" => reviews[o] <= overlaps
    /\ \A o \in Ids : expires[o] = 0 => reviews[o] = 0 /\ \A t \in Threads : ~ Claims(t, o)
    /\ \A t \in Threads, o \in Ids : Decides(request[t], o) => rows[t][o] # "pending"

LEMMA CountInit == GateInit => CountInv
<1> SUFFICES ASSUME GateInit
             PROVE  CountInv
  OBVIOUS
<1>1. \A t \in Threads, o \in Ids : ~ Claims(t, o) /\ ~ Decides(request[t], o)
  BY DEF GateInit, Claims, Decides, Nothing
<1>2. \A o \in Ids : NoRows[o] # "pending"
  BY DEF NoRows
<1> QED
  BY <1>1, <1>2 DEF GateInit, CountInv, Claim

(* An operation that starts claims only orders that the file has pending or  *)
(* that it queues for the first time.                                        *)
LEMMA CountReads ==
    ASSUME GateInv, CountInv, NEW t \in Threads, NEW q \in Requests, NEW r \in Rows,
           CanStart(t), Reads(t, q, r), UNCHANGED <<file, reviews>>,
           expires' \in [Ids -> Nat],
           \A o \in Ids : expires'[o] = expires[o] \/ (expires[o] = 0 /\ expires'[o] # 0),
           \A o \in Ids : r[o] = "pending" \/ Decides(q, o)
              => ReadPending[o] = "pending" \/ (expires[o] = 0 /\ expires'[o] # 0),
           \A o \in Ids : Decides(q, o) => r[o] # "pending"
    PROVE  CountInv'
<1> PICK u \in Threads : u # t /\ Threads = {t, u}
  OBVIOUS
<1>1. /\ pc[t] = "idle" /\ pc'[t] = "read" /\ rows'[t] = r /\ request'[t] = q
      /\ pc'[u] = pc[u] /\ rows'[u] = rows[u] /\ request'[u] = request[u]
      /\ overlaps' = IF pc[u] = "idle" THEN overlaps ELSE overlaps + 1
  BY Zenon DEF CanStart, Reads, Alone, GateInv, GateTypeOK
<1>2. /\ reviews \in [Ids -> Nat] /\ overlaps \in Nat
      /\ \A o \in Ids : ReadPending[o] = "pending" => file # Corrupt /\ file[o] = "pending" /\ expires[o] # 0
  BY ReadingGivesRows, ReadingIsHonest DEF GateInv, GateTypeOK, Honest
<1>3. \A o \in Ids : /\ Claims(u, o)' <=> Claims(u, o)
                     /\ ~ Claims(t, o)
                     /\ Claims(t, o)' <=> r[o] = "pending" \/ Decides(q, o)
                     /\ Claims(u, o) => pc[u] # "idle"
  BY <1>1 DEF Claims, Decides
<1>4. ASSUME NEW o \in Ids
      PROVE  /\ reviews[o] + Claim(t, o) + Claim(u, o) <= 1 + overlaps
             /\ Claim(t, o) = 0 /\ Claim(u, o) \in {0, 1}
             /\ Claim(u, o)' = Claim(u, o) /\ (pc[u] = "idle" => Claim(u, o) = 0)
             /\ Claim(t, o)' \in {0, 1}
             /\ Claim(t, o)' = 1 => \/ reviews[o] <= overlaps
                                    \/ reviews[o] = 0 /\ Claim(u, o) = 0
  <2>1. Claim("trader", o) + Claim("dashboard", o) = Claim(t, o) + Claim(u, o)
    BY DEF Claim
  <2>2. reviews[o] + Claim(t, o) + Claim(u, o) <= 1 + overlaps
    BY <1>2, <2>1 DEF CountInv, Claim
  <2>3. Claims(t, o)' => \/ reviews[o] <= overlaps
                         \/ reviews[o] = 0 /\ ~ Claims(u, o)
    BY <1>2, <1>3 DEF CountInv
  <2> QED
    BY <1>3, <2>2, <2>3 DEF Claim
<1>5. \A o \in Ids : reviews[o] + Claim(t, o)' + Claim(u, o)' <= 1 + overlaps'
  BY <1>1, <1>2, <1>4
<1>6. \A o \in Ids : reviews'[o] + Claim("trader", o)' + Claim("dashboard", o)' <= 1 + overlaps'
  BY <1>2, <1>5 DEF Claim
<1>7. file' # Corrupt => \A o \in Ids : file'[o] = "pending" => reviews'[o] <= overlaps'
  BY <1>1, <1>2 DEF CountInv
<1>8. \A o \in Ids : expires'[o] = 0 => reviews'[o] = 0 /\ \A v \in Threads : ~ Claims(v, o)'
  BY <1>2, <1>3 DEF CountInv
<1>9. \A v \in Threads, o \in Ids : Decides(request'[v], o) => rows'[v][o] # "pending"
  BY <1>1 DEF CountInv
<1> QED
  BY <1>6, <1>7, <1>8, <1>9 DEF CountInv

(* What the prune leaves pending was pending in the file. *)
LEMMA PrunedWasPending ==
    ASSUME GateInv
    PROVE  /\ Pruned(ReadPending) \in Rows
           /\ \A o \in Ids : Pruned(ReadPending)[o] = "pending" => ReadPending[o] = "pending"
  BY ReadingGivesRows, PruningExpires DEF GateInv

LEMMA CountOperations ==
    ASSUME GateInv, CountInv, NEW o \in Ids,
           QueueLive(o) \/ Approve(o) \/ Reject(o) \/ MarkSubmitted(o)
    PROVE  CountInv'
<1> DEFINE r == Pruned(ReadPending)
<1>1. r \in Rows /\ \A p \in Ids : r[p] = "pending" => ReadPending[p] = "pending"
  BY PrunedWasPending
<1>2. expires \in [Ids -> Nat] /\ now \in Nat /\ now > 0
  BY DEF GateInv, GateTypeOK
<1> HIDE DEF r
<1>3. CASE QueueLive(o)
  <2> DEFINE q == [op |-> "queue", id |-> o]
             n == [r EXCEPT ![o] = "pending"]
  <2>1. /\ CanStart("trader") /\ Reads("trader", q, n) /\ expires[o] = 0
        /\ expires' = [expires EXCEPT ![o] = now + Timeout] /\ UNCHANGED <<file, reviews>>
    BY <1>3 DEF QueueLive, Logs, r
  <2>2. expires' \in [Ids -> Nat] /\ expires'[o] # 0 /\ \A p \in Ids : p # o => expires'[p] = expires[p]
    BY <1>2, <2>1, GateAssumption
  <2>3. n \in Rows /\ n[o] = "pending" /\ \A p \in Ids : p # o => n[p] = r[p]
    BY <1>1, RowChanged
  <2>4. q \in Requests /\ \A p \in Ids : ~ Decides(q, p)
    BY DEF Requests, Decides
  <2> HIDE DEF q, n
  <2> QED
    BY <1>1, <2>1, <2>2, <2>3, <2>4, CountReads
<1>4. ASSUME NEW t \in Threads, NEW q \in Requests, NEW n \in Rows,
             CanStart(t), Reads(t, q, n), UNCHANGED <<file, expires, reviews>>,
             \A p \in Ids : n[p] = "pending" \/ Decides(q, p) => ReadPending[p] = "pending",
             \A p \in Ids : Decides(q, p) => n[p] # "pending"
      PROVE  CountInv'
  BY <1>2, <1>4, CountReads
<1>5. [op |-> "refuse"] \in Requests /\ \A p \in Ids : ~ Decides([op |-> "refuse"], p)
  BY DEF Requests, Decides
<1>6. ASSUME NEW v \in {"approve", "reject"}, NEW s \in {"approved", "rejected"},
             CanStart("dashboard"), UNCHANGED <<file, expires, reviews>>,
             \/ r[o] = "pending" /\ Reads("dashboard", [op |-> v, id |-> o], [r EXCEPT ![o] = s])
             \/ Reads("dashboard", [op |-> "refuse"], r)
      PROVE  CountInv'
  <2> DEFINE q == [op |-> v, id |-> o]
             n == [r EXCEPT ![o] = s]
  <2>1. q \in Requests /\ \A p \in Ids : Decides(q, p) <=> p = o
    BY DEF Requests, Decides
  <2>2. n \in Rows /\ n[o] = s /\ \A p \in Ids : p # o => n[p] = r[p]
    BY <1>1 DEF Rows
  <2>3. CASE Reads("dashboard", [op |-> "refuse"], r)
    BY <1>1, <1>4, <1>5, <1>6, <2>3
  <2>4. CASE r[o] = "pending" /\ Reads("dashboard", q, n)
    <3> HIDE DEF q, n
    <3> QED
      BY <1>1, <1>4, <1>6, <2>1, <2>2, <2>4
  <2> QED
    BY <1>6, <2>3, <2>4
<1>7. CASE Approve(o)
  BY <1>6, <1>7 DEF Approve, Logs, r
<1>8. CASE Reject(o)
  BY <1>6, <1>8 DEF Reject, Logs, r
<1>9. CASE MarkSubmitted(o)
  <2> DEFINE q == [op |-> "submit", id |-> o]
             n == [ReadPending EXCEPT ![o] = "submitted"]
  <2>1. CanStart("trader") /\ Reads("trader", q, n) /\ UNCHANGED <<file, expires, reviews>>
    BY <1>9 DEF MarkSubmitted, Logs
  <2>2. q \in Requests /\ \A p \in Ids : ~ Decides(q, p)
    BY DEF Requests, Decides
  <2>3. n \in Rows /\ n[o] = "submitted" /\ \A p \in Ids : p # o => n[p] = ReadPending[p]
    BY ReadingGivesRows, RowChanged DEF GateInv
  <2> HIDE DEF q, n
  <2> QED
    BY <1>4, <2>1, <2>2, <2>3
<1> QED
  BY <1>3, <1>7, <1>8, <1>9

LEMMA CountListPending == ASSUME GateInv, CountInv, ListPending PROVE CountInv'
<1> DEFINE q == [op |-> "list"]
           r == Pruned(ReadPending)
<1>1. r \in Rows /\ \A p \in Ids : r[p] = "pending" => ReadPending[p] = "pending"
  BY PrunedWasPending
<1>2. q \in Requests /\ \A p \in Ids : ~ Decides(q, p)
  BY DEF Requests, Decides
<1>3. CanStart("dashboard") /\ Reads("dashboard", q, r) /\ UNCHANGED <<file, expires, reviews>>
  BY DEF ListPending, Logs
<1>4. expires \in [Ids -> Nat]
  BY DEF GateInv, GateTypeOK
<1> HIDE DEF q, r
<1> QED
  BY <1>1, <1>2, <1>3, <1>4, CountReads

(* The end of a write turns its thread's claim into a decision told or into  *)
(* a row that the file has pending again; a garbled one loses both.          *)
LEMMA CountWrites ==
    ASSUME GateInv, CountInv, NEW t \in Threads, BeginWrite(t) \/ EndWrite(t)
    PROVE  CountInv'
<1> PICK u \in Threads : u # t /\ Threads = {t, u}
  OBVIOUS
<1>1. CASE BeginWrite(t)
  <2>1. /\ pc[t] # "idle" /\ pc'[t] # "idle" /\ pc'[u] = pc[u] /\ file' = Corrupt
        /\ UNCHANGED <<expires, rows, request, reviews, overlaps>>
    BY <1>1, Zenon DEF BeginWrite, Logs, GateInv, GateTypeOK
  <2>2. \A v \in Threads, o \in Ids : Claims(v, o)' <=> Claims(v, o)
    BY <2>1 DEF Claims
  <2> QED
    BY <2>1, <2>2 DEF CountInv, Claim
<1>2. CASE EndWrite(t)
  <2>1. /\ pc[t] # "idle" /\ pc'[t] = "idle" /\ pc'[u] = pc[u]
        /\ rows'[u] = rows[u] /\ request'[u] = request[u] /\ request'[t] = Nothing
        /\ file' \in {rows[t], Corrupt} /\ UNCHANGED <<expires, overlaps>>
    BY <1>2, Zenon DEF EndWrite, GateInv, GateTypeOK
  <2>2. /\ reviews \in [Ids -> Nat] /\ overlaps \in Nat /\ request[t] \in Requests
    BY DEF GateInv, GateTypeOK
  <2>3. \A o \in Ids : reviews'[o] = IF Decides(request[t], o) THEN reviews[o] + 1 ELSE reviews[o]
    BY <1>2, <2>2 DEF EndWrite, Conclude, Decides
  <2>4. \A o \in Ids : /\ ~ Claims(t, o)'
                       /\ Claims(u, o)' <=> Claims(u, o)
                       /\ Decides(request[t], o) \/ rows[t][o] = "pending" => Claims(t, o)
    BY <2>1 DEF Claims
  <2>5. ASSUME NEW o \in Ids
        PROVE  /\ reviews[o] + Claim(t, o) + Claim(u, o) <= 1 + overlaps
               /\ Claim(t, o)' = 0 /\ Claim(u, o)' = Claim(u, o) /\ Claim(u, o) \in {0, 1}
               /\ Claim(t, o) \in {0, 1} /\ (Claims(t, o) => Claim(t, o) = 1)
    <3>1. Claim("trader", o) + Claim("dashboard", o) = Claim(t, o) + Claim(u, o)
      BY DEF Claim
    <3> QED
      BY <2>2, <2>4, <3>1 DEF CountInv, Claim
  <2>6. \A o \in Ids : reviews'[o] + Claim(t, o)' + Claim(u, o)' <= 1 + overlaps'
    BY <2>1, <2>2, <2>3, <2>4, <2>5
  <2>7. \A o \in Ids : reviews'[o] + Claim("trader", o)' + Claim("dashboard", o)' <= 1 + overlaps'
    BY <2>2, <2>3, <2>6 DEF Claim
  <2>8. file' # Corrupt => \A o \in Ids : file'[o] = "pending" => reviews'[o] <= overlaps'
    <3> SUFFICES ASSUME NEW o \in Ids, file' = rows[t], rows[t][o] = "pending"
                 PROVE  reviews'[o] <= overlaps
      BY <2>1
    <3>1. Claims(t, o) /\ ~ Decides(request[t], o)
      BY <2>4 DEF CountInv
    <3> QED
      BY <2>2, <2>3, <2>5, <3>1
  <2>9. \A o \in Ids : expires'[o] = 0 => reviews'[o] = 0 /\ \A v \in Threads : ~ Claims(v, o)'
    BY <2>1, <2>3, <2>4 DEF CountInv
  <2>10. \A v \in Threads, o \in Ids : Decides(request'[v], o) => rows'[v][o] # "pending"
    BY <2>1 DEF CountInv, Decides, Nothing
  <2> QED
    BY <2>7, <2>8, <2>9, <2>10 DEF CountInv
<1> QED
  BY <1>1, <1>2

LEMMA CountRest ==
    ASSUME GateInv, CountInv,
           (\E o \in Ids : QueueShadow(o)) \/ Clock \/ CrashRestart \/ UNCHANGED gateVars
    PROVE  CountInv'
<1>1. CASE CrashRestart
  <2>1. UNCHANGED <<file, expires, reviews, overlaps>>
    BY <1>1 DEF CrashRestart, Logs
  <2>2. \A t \in Threads, o \in Ids : ~ Claims(t, o)' /\ ~ Decides(request'[t], o)
    BY <1>1 DEF CrashRestart, Claims, Decides, Nothing
  <2>3. \A o \in Ids : reviews[o] \in Nat /\ overlaps \in Nat /\ reviews[o] <= 1 + overlaps
    BY DEF GateInv, GateTypeOK, CountInv, Claim
  <2> QED
    BY <2>1, <2>2, <2>3 DEF CountInv, Claim
<1>2. CASE (\E o \in Ids : QueueShadow(o)) \/ Clock \/ UNCHANGED gateVars
  <2>1. UNCHANGED <<file, expires, pc, rows, request, reviews, overlaps>>
    BY <1>2 DEF QueueShadow, Clock, gateVars, Logs
  <2>2. \A t \in Threads, o \in Ids : Claims(t, o)' <=> Claims(t, o)
    BY <2>1 DEF Claims
  <2> QED
    BY <2>1, <2>2 DEF CountInv, Claim
<1> QED
  BY <1>1, <1>2

LEMMA CountStep == GateInv /\ CountInv /\ [GateNext]_gateVars => CountInv'
<1> SUFFICES ASSUME GateInv, CountInv, [GateNext]_gateVars
             PROVE  CountInv'
  OBVIOUS
<1>1. ASSUME NEW o \in Ids, QueueLive(o) \/ Approve(o) \/ Reject(o) \/ MarkSubmitted(o)
      PROVE  CountInv'
  BY <1>1, CountOperations
<1>2. CASE ListPending
  BY <1>2, CountListPending
<1>3. ASSUME NEW t \in Threads, BeginWrite(t) \/ EndWrite(t)
      PROVE  CountInv'
  BY <1>3, CountWrites
<1>4. CASE (\E o \in Ids : QueueShadow(o)) \/ Clock \/ CrashRestart \/ UNCHANGED gateVars
  BY <1>4, CountRest
<1> QED
  BY <1>1, <1>2, <1>3, <1>4 DEF GateNext

(* approve_order and reject_order run without a lock beside the trader's     *)
(* queue_order and mark_submitted, and a stale rewrite can bring a decided   *)
(* order back to be decided again.  The reviewer is told of at most one      *)
(* decision on an order more than there were operations begun during one of  *)
(* the other thread, whatever crashes, truncated reads and garbled files do. *)
THEOREM DecisionsAreBounded == GateSpec => []DecidedOnce
<1>1. GateInit => GateInv /\ CountInv
  BY GateInitInv, CountInit
<1>2. GateInv /\ CountInv /\ [GateNext]_gateVars => (GateInv /\ CountInv)'
  BY StepInv, CountStep
<1>3. GateInv /\ CountInv => DecidedOnce
  BY DEF GateInv, GateTypeOK, CountInv, Claim, DecidedOnce
<1> QED
  BY <1>1, <1>2, <1>3, PTL DEF GateSpec
=============================================================================
