-------------------------------- MODULE Target --------------------------------
(***************************************************************************)
(* The target every block must carry and the work it earns (stn_pow.c),    *)
(* and the window of headers an accepted state keeps to name the next      *)
(* target without its history (stn_chain.c).                               *)
(*                                                                         *)
(* A target is a sequence of Digits digits, most significant first, in     *)
(* place of 32 bytes; the scaled target has two digits more, in place of   *)
(* 34 bytes.  The window is Window blocks in place of 60 and its expected  *)
(* span Expected in place of 3600 seconds.  Whether a block's identifier   *)
(* meets its target is left to the miner that offers it.  XxxFault is a    *)
(* faulty variant of Xxx that some property must notice.                   *)
(***************************************************************************)
EXTENDS Integers, Sequences, SequencesExt

CONSTANTS
    Radix, Digits,
    Bits,         \* of a target
    Window, Expected,
    WorkLimit,    \* work does not fit from here on, in place of 2^320
    Gaps,         \* seconds from one block to the next
    MaxHeight,    \* bound of the runs
    Refused

Power(b, n) == FoldLeft(LAMBDA v, x : v * x, 1, [k \in 1..n |-> b])
Numerals == [1..Digits -> 0..(Radix - 1)]

ASSUME TargetAssumption ==
    /\ Radix \in Nat /\ 4 <= Radix /\ Radix % 2 = 0 /\ Digits \in Nat \ {0}
    /\ Bits \in Nat /\ Power(2, Bits) = Power(Radix, Digits)
    /\ Window \in Nat \ {0, 1} /\ Expected \in Nat \ {0} /\ Expected % 4 = 0
    /\ 4 * Expected <= Radix * Radix
    /\ WorkLimit \in Nat /\ Power(Radix, Digits) <= WorkLimit
    /\ Gaps \subseteq Nat /\ MaxHeight \in Nat
    /\ Refused \notin Nat /\ Refused \notin Numerals

VARIABLES
    bootstrap,    \* the configured target
    tip,          \* what an accepted state knows
    chain         \* the accepted headers, for reference

targetVars == <<bootstrap, tip, chain>>

Value(d) == FoldLeft(LAMBDA v, x : v * Radix + x, 0, d)

(* At least one, and the top bit is clear. *)
TargetValid(t) == (\E i \in 1..Digits : t[i] # 0) /\ t[1] < Radix \div 2
Largest == [i \in 1..Digits |-> IF i = 1 THEN Radix \div 2 - 1 ELSE Radix - 1]

-----------------------------------------------------------------------------
(* Multiplication from the last digit, the carry in the two extra digits.  *)
Carry(t, factor, i) ==      \* from the digits behind i
    FoldLeft(LAMBDA c, x : (x + c) \div Radix,
             0, [k \in 1..(Digits - i) |-> t[Digits + 1 - k] * factor])
Scaled(t, factor) ==
    [i \in 1..(Digits + 2) |->
        CASE i = 1 -> (Carry(t, factor, 0) \div Radix) % Radix
          [] i = 2 -> Carry(t, factor, 0) % Radix
          [] OTHER -> (t[i - 2] * factor + Carry(t, factor, i - 2)) % Radix]

(* Long division from the first digit; the last remainder is discarded. *)
Rest(s, i) ==               \* after i digits
    FoldLeft(LAMBDA r, x : (r * Radix + x) % Expected, 0, [k \in 1..i |-> s[k]])
Divided(s) ==
    [i \in 1..(Digits + 2) |-> (Rest(s, i - 1) * Radix + s[i]) \div Expected]

Clamp(low, high, v) == IF v < low THEN low ELSE IF v > high THEN high ELSE v

Factor(history) ==
    LET first == Head(history).time
        last == Last(history).time
    IN Clamp(Expected \div 4, 4 * Expected, IF last <= first THEN 0 ELSE last - first)

Adjusted(t, factor) ==
    LET q == Divided(Scaled(t, factor))
        low == SubSeq(q, 3, Digits + 2)
    IN IF q[1] # 0 \/ q[2] # 0 \/ low[1] >= Radix \div 2 THEN Largest
       ELSE IF TargetValid(low) THEN low ELSE [low EXCEPT ![Digits] = 1]

Boundary(height) == height >= Window /\ height % Window = 0

(* The history is the window at a boundary and the predecessor elsewhere. *)
TargetNext(height, history) ==
    LET required == IF height = 0 THEN 0 ELSE IF Boundary(height) THEN Window ELSE 1
    IN IF \/ Len(history) # required
          \/ \E i \in DOMAIN history :
                \/ history[i].height # height - Len(history) + i - 1
                \/ ~TargetValid(history[i].target)
                \/ height <= Window /\ history[i].target # bootstrap
       THEN Refused
       ELSE IF Boundary(height) THEN Adjusted(Last(history).target, Factor(history))
       ELSE IF height < Window THEN bootstrap
       ELSE Last(history).target

-----------------------------------------------------------------------------
(* Radix^Digits divided by one more than the target, bit by bit from the   *)
(* top, which is the only one set.                                         *)
Shifted(s, k) == 2 * s.rest + (IF k = 1 THEN 1 ELSE 0)
TargetWorkFault(t) ==                        \* an equal remainder stays
    FoldLeft(LAMBDA s, k :
                 IF Shifted(s, k) > Value(t) + 1
                 THEN [rest |-> Shifted(s, k) - (Value(t) + 1), work |-> 2 * s.work + 1]
                 ELSE [rest |-> Shifted(s, k), work |-> 2 * s.work],
             [rest |-> 0, work |-> 0], [k \in 1..(Bits + 1) |-> k]).work

TargetWork(t) ==
    FoldLeft(LAMBDA s, k :
                 IF Shifted(s, k) >= Value(t) + 1
                 THEN [rest |-> Shifted(s, k) - (Value(t) + 1), work |-> 2 * s.work + 1]
                 ELSE [rest |-> Shifted(s, k), work |-> 2 * s.work],
             [rest |-> 0, work |-> 0], [k \in 1..(Bits + 1) |-> k]).work

WorkAdd(a, b) ==
    IF Refused \in {a, b} THEN Refused ELSE IF a + b >= WorkLimit THEN Refused ELSE a + b

(* The work of height + 1 blocks of one target, by doubling: one round for *)
(* each bit of height, and rounds on nothing change nothing.               *)
Round(s) ==
    [height |-> s.height \div 2,
     power  |-> IF s.height \div 2 = 0 THEN s.power ELSE WorkAdd(s.power, s.power),
     sum    |-> IF s.height % 2 = 1 THEN WorkAdd(s.sum, s.power) ELSE s.sum]
WorkAtHeight(t, height) ==
    WorkAdd(FoldLeft(LAMBDA s, k : Round(s),
                     [height |-> height, power |-> TargetWork(t), sum |-> 0],
                     [k \in 1..height |-> k]).sum,
            TargetWork(t))

-----------------------------------------------------------------------------
(* The parts of an accepted state that name the next target must agree     *)
(* with each other, or no block can follow.                                *)
PriorValid(s) ==
    /\ TargetValid(s.target) /\ s.work > 0
    /\ s.height < Window =>
        s.target = bootstrap /\ s.work = WorkAtHeight(bootstrap, s.height)

WindowValid(s) ==
    /\ Len(s.window) = (s.height % Window) + 1
    /\ \A i \in DOMAIN s.window :
        /\ s.window[i].height = s.height + i - Len(s.window)
        /\ s.window[i].target = s.target
        /\ i # 1 => s.window[i].time >= s.window[i - 1].time
    /\ Last(s.window).time = s.time

RequiredTarget(s) ==
    IF ~PriorValid(s) \/ ~WindowValid(s) THEN Refused
    ELSE TargetNext(s.height + 1,
            IF Boundary(s.height + 1) THEN s.window ELSE <<Last(s.window)>>)

HeaderOf(height, time, target) == [height |-> height, time |-> time, target |-> target]

KeptFault(s, header) ==      \* the window begins with the block after the boundary
    IF header.height % Window = 1 THEN <<header>> ELSE Append(s.window, header)
Kept(s, header) ==
    IF header.height % Window = 0 THEN <<header>> ELSE Append(s.window, header)

(* The configured genesis carries the configured target. *)
TargetInit ==
    /\ bootstrap \in {t \in Numerals : TargetValid(t)}
    /\ tip = [height |-> 0, time |-> 0, target |-> bootstrap, work |-> TargetWork(bootstrap),
              window |-> <<HeaderOf(0, 0, bootstrap)>>]
    /\ chain = tip.window

Accept(gap) ==
    LET target == RequiredTarget(tip)
        header == HeaderOf(tip.height + 1, tip.time + gap, target)
        work == WorkAdd(tip.work, TargetWork(target))
    IN /\ tip.height < MaxHeight
       /\ target # Refused
       /\ work # Refused
       /\ tip' = [height |-> header.height, time |-> header.time, target |-> target,
                  work |-> work, window |-> Kept(tip, header)]
       /\ chain' = Append(chain, header)
       /\ UNCHANGED bootstrap

TargetStep == \E gap \in Gaps : Accept(gap)

TargetSpec == TargetInit /\ [][TargetStep]_targetVars

-----------------------------------------------------------------------------
(* docs/POW.md: "floor(previous target * clamped span / 3600)" between     *)
(* heights H-60 and H-1, clamped to the valid range.  Every accepted state *)
(* names its next target, from its window alone, and names what the rule   *)
(* gives over the whole history (stn_target_next).                         *)
Promised ==
    LET next == tip.height + 1
        t == Value(tip.target)
        span == chain[next].time - chain[next - Window + 1].time
        v == (t * Clamp(Expected \div 4, 4 * Expected, span)) \div Expected
    IN IF Boundary(next) THEN Clamp(1, Value(Largest), v) ELSE t

TargetFollowsHistory ==
    LET required == RequiredTarget(tip)
    IN required # Refused /\ TargetValid(required) /\ Value(required) = Promised

(* The work of a state is the exact quotient summed over its blocks, so an *)
(* extension always has strictly more, by at least two a block             *)
(* (stn_target_work, stn_work_add): fork choice depends on it.             *)
WorkIsEarned ==
    /\ tip.work = FoldLeft(LAMBDA w, h : w + Power(Radix, Digits) \div (Value(h.target) + 1), 0, chain)
    /\ TargetWork(tip.target) >= 2
==============================================================================
