------------------------------ MODULE Playout ------------------------------
(***************************************************************************)
(* What packages/media offers a viewer between the transport and the       *)
(* screen and speakers: the adaptive jitter buffer (jitter.rs), the A/V    *)
(* skew controller with its linear resampler (skew.rs) and the audio       *)
(* policy while the picture is frozen (freeze.rs).  Each is a machine of   *)
(* its own driven by the viewer's clock: part says which one a behaviour   *)
(* drives, and the others keep their initial state.                        *)
(*                                                                         *)
(* Durations are whole numbers of a unit; gains and stretches are whole    *)
(* numbers of 1/Unity and 1/(50 * 50) where the code uses floats.          *)
(***************************************************************************)
EXTENDS Integers, Sequences, SequencesExt, FiniteSetsExt

CONSTANTS
    MinTarget, MaxTarget, InitialTarget, \* JitterConfig
    LateThreshold,                       \* argument of drop_late
    Interval,       \* time between the source's packets, and clock step
    SeqWrap,        \* sequence numbers are taken modulo SeqWrap (2^16)
    Delays,         \* network delays of a packet
    MaxPackets,     \* bound: packets the source sends
    Skews,          \* skews a sample may show
    Deadband, Step, MinStepInterval, FullStretch, \* SkewConfig
    FreezeModes, FreezeThreshold, Hold, Fade, DuckGain, Unity, \* FreezeConfig
    StretchDiv,     \* 1 / max_stretch
    Pcm,            \* audio blocks that may be resampled
    MaxTime,        \* bound: the viewer's clock, jitter buffer
    MaxTicks        \* bound: the viewer's clock, skew and freeze

\* What becomes of the audio of a frozen picture.
AudioOnVideoFreeze == {"hold_fade", "duck", "continue"}

ASSUME PlayoutAssumption ==
    /\ {MinTarget, MaxTarget, InitialTarget, LateThreshold} \subseteq Nat
    /\ MinTarget <= MaxTarget
    /\ {Interval, SeqWrap, Step, MinStepInterval, FullStretch, StretchDiv, Fade, Unity}
          \subseteq Nat \ {0}
    /\ Delays \subseteq Nat /\ Skews \subseteq Int
    /\ {MaxPackets, MaxTime, MaxTicks, Deadband, FreezeThreshold, Hold} \subseteq Nat
    /\ DuckGain \in 0..Unity       \* duck_q15, a fraction
    /\ StretchDiv >= 2              \* max_stretch is 0.02
    /\ Pcm \subseteq Seq(Int) \ {<<>>} \* nothing of an empty block is resampled
    /\ FreezeModes \subseteq AudioOnVideoFreeze

VARIABLES
    part,           \* the machine this behaviour drives
    now,            \* the viewer's clock
    net,            \* packets on their way: [seq, pts, due]
    numbered,       \* TRUE: push_with_seq, FALSE: push
    target, queue, received, released, dropped, ewma,
    last,           \* last_recv, last_pts, last_seq; <<>> for None
    spread,         \* smallest and largest delay of the packets pushed so far
    delay_offset, last_step, first_step, stretch, skew,
    pcm,            \* the last block resampled: [input, output]
    freeze_mode, last_video, gain, hold_last,
    shown           \* when a frame was last shown

jitter == <<net, numbered, target, queue, received, released, dropped, ewma, last, spread>>
skewing == <<delay_offset, last_step, first_step, stretch, skew, pcm>>
freezing == <<freeze_mode, last_video, gain, hold_last, shown>>
pvars == <<part, now, jitter, skewing, freezing>>

Abs(x) == IF x < 0 THEN -x ELSE x

\* clamp_duration, f64::clamp.
Clamp(v, lo, hi) == IF v < lo THEN lo ELSE IF v > hi THEN hi ELSE v

\* Rust's integer division rounds towards zero.
Div(a, b) == IF a < 0 THEN -((-a) \div b) ELSE a \div b

\* Duration::saturating_sub.
SatSub(a, b) == IF a > b THEN a - b ELSE 0

-----------------------------------------------------------------------------
(***************************************************************************)
(* Jitter buffer.  The source sends packet k with pts k * Interval; the    *)
(* network delays each by its own delay, so they may arrive reordered, and *)
(* may lose it.                                                            *)
(***************************************************************************)
Packets == {[seq |-> k % SeqWrap, pts |-> k * Interval, due |-> k * Interval + d,
             state |-> "flying"] :
               k \in 0..(MaxPackets - 1), d \in Delays}

\* JitterConfig: the playout delays the target may take.
TargetRange == MinTarget..MaxTarget

JitterInit ==
    /\ net = {}
    /\ numbered \in BOOLEAN
    /\ target = Clamp(InitialTarget, MinTarget, MaxTarget)
    /\ queue = <<>> /\ last = <<>>
    /\ received = 0 /\ released = 0 /\ dropped = 0 /\ ewma = 0
    /\ spread = <<>>

\* A packet enters the network with one of the delays.
Emit(pkt) ==
    /\ \A q \in net : q.pts < pkt.pts
    /\ pkt.pts <= now /\ pkt.pts > now - Interval
    /\ net' = net \cup {pkt}
    /\ UNCHANGED <<numbered, target, queue, received, released, dropped, ewma, last, spread>>

\* apply_transit: the EWMA rises by a sixteenth of the excess, the target
\* moves an eighth of the way to twice the EWMA.
ApplyTransit(pts, recv) ==
    IF last = <<>>
    THEN UNCHANGED <<ewma, target>>
    ELSE LET d_recv == SatSub(recv, last.recv)
             d_pts == SatSub(pts, last.pts)
             abs == Abs(d_recv - d_pts)
             e == ewma + SatSub(abs, ewma) \div 16
             next == target + Div(2 * e - target, 8)
         IN /\ ewma' = e
            /\ target' = Clamp(next, MinTarget, MaxTarget)

Remember(seq, pts, recv) == last' = [seq |-> seq, pts |-> pts, recv |-> recv]

\* adapt: with sequence numbers a gap or a reorder only resynchronises;
\* without, a pts that does not advance is ignored.
Adapt(pkt) ==
    IF numbered
    THEN IF last # <<>> /\ pkt.seq # (last.seq + 1) % SeqWrap
         THEN Remember(pkt.seq, pkt.pts, now) /\ UNCHANGED <<ewma, target>>
         ELSE ApplyTransit(pkt.pts, now) /\ Remember(pkt.seq, pkt.pts, now)
    ELSE IF last # <<>> /\ pkt.pts <= last.pts
         THEN UNCHANGED <<ewma, target, last>>
         ELSE ApplyTransit(pkt.pts, now) /\ Remember(0, pkt.pts, now)

\* Mutant: packets are kept in the order they came.
InsertByArrival(q, pkt) == Append(q, pkt)

\* Before the first queued packet with a larger pts, else at the end.
InsertByPts(q, pkt) ==
    LET later == {i \in 1..Len(q) : q[i].pts > pkt.pts}
        pos == IF later = {} THEN Len(q) + 1 ELSE Min(later)
    IN InsertAt(q, pos, pkt)

\* push, push_with_seq: a packet that is due arrives.
Push(pkt) ==
    /\ pkt.state = "flying" /\ pkt.due <= now
    /\ net' = (net \ {pkt}) \cup {[pkt EXCEPT !.state = "gone"]}
    /\ received' = received + 1
    /\ Adapt(pkt)
    /\ queue' = InsertByPts(queue, [pts |-> pkt.pts, recv |-> now])
    /\ LET delay == now - pkt.pts IN
       spread' = IF spread = <<>> THEN [lo |-> delay, hi |-> delay]
                 ELSE [lo |-> Min({spread.lo, delay}), hi |-> Max({spread.hi, delay})]
    /\ UNCHANGED <<numbered, released, dropped>>

\* The network loses it.
Lose(pkt) ==
    /\ pkt.state = "flying"
    /\ net' = (net \ {pkt}) \cup {[pkt EXCEPT !.state = "gone"]}
    /\ UNCHANGED <<numbered, target, queue, received, released, dropped, ewma, last, spread>>

Held(pkt) == SatSub(now, pkt.recv)

\* Mutant: a packet played is not counted.
TakeUncounted == queue' = Tail(queue) /\ UNCHANGED released

TakeFront == queue' = Tail(queue) /\ released' = released + 1

\* pop_ready: the front packet, if it was held for the target delay.
PopReady ==
    /\ queue # <<>>
    /\ Held(Head(queue)) >= target
    /\ TakeFront
    /\ UNCHANGED <<net, numbered, target, received, dropped, ewma, last, spread>>

\* pop_front: underrun recovery, whatever the hold.
PopFront ==
    /\ queue # <<>>
    /\ TakeFront
    /\ UNCHANGED <<net, numbered, target, received, dropped, ewma, last, spread>>

\* drop_late: from the front, as long as the front is too late.
DropLate ==
    LET late(i) == Held(queue[i]) > target + LateThreshold
        n == Max({k \in 0..Len(queue) : \A i \in 1..k : late(i)})
    IN /\ n > 0
       /\ queue' = SubSeq(queue, n + 1, Len(queue))
       /\ dropped' = dropped + n
       /\ UNCHANGED <<net, numbered, target, received, released, ewma, last, spread>>

JitterStep ==
    /\ \/ \E pkt \in Packets : Emit(pkt)
       \/ \E pkt \in net : Push(pkt) \/ Lose(pkt)
       \/ PopReady
       \/ PopFront
       \/ DropLate
    /\ UNCHANGED <<now, skewing, freezing>>

-----------------------------------------------------------------------------
(***************************************************************************)
(* Skew controller.                                                        *)
(***************************************************************************)
\* SkewConfig: stretches up to max_stretch either way.
StretchRange == -FullStretch..FullStretch

SkewInit ==
    /\ delay_offset = 0 /\ last_step = -1 /\ first_step = -1
    /\ stretch = 0 /\ skew = 0 /\ pcm = <<>>

\* At most one step per Step / max_adjust_rate.
CanStep(wall) ==
    IF last_step = -1 THEN TRUE ELSE SatSub(wall, last_step) >= MinStepInterval

\* The residual past the deadband, FullStretch of it giving the full stretch.
Stretch(s) ==
    Clamp(IF s > 0 THEN s - Deadband ELSE s + Deadband, -FullStretch, FullStretch)

\* update: inside the deadband nothing is adjusted and nothing remembered.
Update(s) ==
    /\ skew' = s /\ UNCHANGED pcm
    /\ IF Abs(s) <= Deadband
       THEN stretch' = 0 /\ UNCHANGED <<delay_offset, last_step, first_step>>
       ELSE /\ stretch' = Stretch(s)
            /\ IF CanStep(now)
               THEN /\ delay_offset' = delay_offset + (IF s > 0 THEN Step ELSE -Step)
                    /\ last_step' = now
                    /\ first_step' = IF first_step = -1 THEN now ELSE first_step
               ELSE UNCHANGED <<delay_offset, last_step, first_step>>

\* reset, on media_restart.
Reset ==
    /\ delay_offset' = 0 /\ last_step' = -1 /\ first_step' = -1
    /\ UNCHANGED <<stretch, skew, pcm>>

\* round() of a rational, halves away from zero.
Round(num, den) ==
    IF num >= 0 THEN (2 * num + den) \div (2 * den) ELSE -((2 * (-num) + den) \div (2 * den))

\* linear_resample_i16 of one channel by the ratio p / q: output frame k is
\* read at k * q / p between its two neighbours.
LinearResample(input, p, q) ==
    LET n == Len(input)
        out_frames == Max({Round(n * p, q), 1})
        at(k) == LET i0 == (k * q) \div p
                     frac == (k * q) % p
                     s0 == input[Min({i0, n - 1}) + 1]
                     s1 == input[Min({i0 + 1, n - 1}) + 1]
                 IN Round(s0 * p + (s1 - s0) * frac, p)
    IN IF n <= 1 \/ p = q THEN input ELSE [k \in 1..out_frames |-> at(k - 1)]

\* A block is played at the rate of the last decision.
Resample(block) ==
    /\ pcm = <<>>
    /\ pcm' = [input |-> block, output |->
                 LinearResample(block, StretchDiv * FullStretch + stretch, StretchDiv * FullStretch)]
    /\ UNCHANGED <<delay_offset, last_step, first_step, stretch, skew>>

SkewStep ==
    /\ \/ Reset
       \/ \E s \in Skews : Update(s)
       \/ \E block \in Pcm : Resample(block)
    /\ UNCHANGED <<now, jitter, freezing>>

-----------------------------------------------------------------------------
(***************************************************************************)
(* Audio while the picture is frozen.                                      *)
(***************************************************************************)
FreezeInit ==
    /\ freeze_mode \in FreezeModes
    /\ last_video = -1 /\ gain = Unity /\ hold_last = FALSE /\ shown = -1

\* on_video_frame
OnVideoFrame == last_video' = now /\ gain' = Unity /\ hold_last' = FALSE

\* HoldFade: hold the last audio, then fade it, then silence.
HoldFade(since) ==
    IF since < Hold THEN [gain |-> Unity, hold |-> TRUE]
    ELSE IF since - Hold < Fade
         THEN [gain |-> Unity - ((since - Hold) * Unity) \div Fade, hold |-> TRUE]
         ELSE [gain |-> 0, hold |-> FALSE]

\* tick: once per audio quantum.
FreezeTick ==
    LET frozen_for == SatSub(now, last_video)
        out == IF \/ freeze_mode = "continue"
                  \/ last_video = -1
                  \/ frozen_for <= FreezeThreshold
               THEN [gain |-> Unity, hold |-> FALSE]
               ELSE IF freeze_mode = "duck"
                    THEN [gain |-> DuckGain, hold |-> FALSE]
                    ELSE HoldFade(frozen_for - FreezeThreshold)
    IN gain' = out.gain /\ hold_last' = out.hold /\ UNCHANGED last_video

FreezeStep ==
    /\ \/ OnVideoFrame /\ shown' = now
       \/ FreezeTick /\ UNCHANGED shown
    /\ UNCHANGED <<now, freeze_mode, jitter, skewing>>

-----------------------------------------------------------------------------
PlayoutParts == {"jitter", "skew", "freeze"}

PlayoutInit == now = 0 /\ JitterInit /\ SkewInit /\ FreezeInit

\* The viewer's clock; the jitter part waits for packets that are due.
PlayoutClock ==
    /\ now < (IF part = "jitter" THEN MaxTime ELSE MaxTicks)
    /\ part = "jitter" => \A p \in net : p.state = "flying" => p.due > now
    /\ now' = now + (IF part = "jitter" THEN Interval ELSE 1)
    /\ UNCHANGED <<jitter, skewing, freezing>>

PlayoutNext ==
    /\ \/ part = "jitter" /\ JitterStep
       \/ part = "skew" /\ SkewStep
       \/ part = "freeze" /\ FreezeStep
       \/ part \in PlayoutParts /\ PlayoutClock
    /\ UNCHANGED part

PlayoutSpec == PlayoutInit /\ [][PlayoutNext]_pvars

-----------------------------------------------------------------------------
(***************************************************************************)
(* Properties.                                                             *)
(***************************************************************************)

\* Type correctness; the adaptive target stays within the configured bounds
\* and no stretch exceeds the maximum.
PlayoutTypeOK ==
    /\ now \in 0..(MaxTime + Interval + MaxTicks)
    /\ target \in TargetRange
    /\ \A i \in 1..Len(queue) : queue[i].pts \in Nat /\ queue[i].recv \in 0..now
    /\ ewma \in Nat
    /\ last_step \in -1..now /\ first_step \in -1..now
    /\ stretch \in StretchRange
    /\ gain \in 0..Unity /\ hold_last \in BOOLEAN

\* Every packet pushed is queued, played or dropped, exactly once, however
\* pushes, pops, forced pops and late drops interleave (JitterStats).
PacketsAccounted == received = released + dropped + Len(queue)

\* What is played next is the earliest of what has arrived, and of packets
\* with one pts the one that came first (push_inner's insertion).
PlayoutInOrder ==
    [][\A k \in 2..Len(queue) : released' # released =>
          \/ Head(queue).pts < queue[k].pts
          \/ Head(queue).pts = queue[k].pts /\ Head(queue).recv <= queue[k].recv]_pvars

\* Loss, reordering and wrap-around of the sequence numbers never make the
\* jitter estimate exceed the spread of the delays the network really had
\* (adapt, apply_transit).
EwmaWithinSpread == ewma > 0 => ewma <= spread.hi - spread.lo

\* Whatever the samples show, the delay offset moves no faster than one Step
\* per interval from the first step on ("at <= 10 ms/s", skew.rs).
SkewRateBounded ==
    IF first_step = -1 THEN delay_offset = 0
    ELSE Abs(delay_offset) <= Step * (1 + (now - first_step) \div MinStepInterval)

\* A correction acts against the skew it was computed from, and vanishes
\* continuously at the edge of the deadband (update).
StretchOpposesSkew ==
    part = "skew" =>
        IF Abs(skew) <= Deadband THEN stretch = 0
        ELSE /\ (stretch > 0) <=> (skew > 0)
             /\ Abs(stretch) <= Abs(skew) - Deadband

\* Resampling stretches the block by the ratio and does nothing else to it:
\* it starts with the same sample, stays within the range of the input, keeps
\* a rising block rising and plays it to its end (linear_resample_i16).
ResampleFaithful ==
    pcm # <<>> =>
        LET i == pcm.input
            o == pcm.output
            rising(s) == \A k \in 2..Len(s) : s[k - 1] <= s[k]
        IN /\ o[1] = i[1]
           /\ \A k \in DOMAIN o : o[k] \in Min(ToSet(i))..Max(ToSet(i))
           /\ rising(i) => rising(o) /\ o[Len(o)] >= i[Max({1, Len(i) - 2})]

\* Audio is untouched until the picture has stood still for longer than the
\* threshold, counted from the last frame shown and not from an earlier one
\* (on_video_frame, tick).
FreshVideoFullAudio ==
    part = "freeze" /\ gain < Unity => shown # -1 /\ now - shown > FreezeThreshold

\* While no new frame comes the volume only ever goes down (tick).
GainFallsWhileFrozen ==
    [][part = "freeze" /\ shown' = shown => gain' <= gain]_pvars

\* The playout loses no packet, estimates no more jitter than there was and
\* corrects no faster and no further than it says, and touches no sound
\* without a reason.
PlayoutSound ==
    PlayoutTypeOK /\ PacketsAccounted /\ EwmaWithinSpread /\ SkewRateBounded
    /\ StretchOpposesSkew /\ ResampleFaithful /\ FreshVideoFullAudio
=============================================================================
