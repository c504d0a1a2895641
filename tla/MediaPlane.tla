----------------------------- MODULE MediaPlane -----------------------------
(***************************************************************************)
(* The host's media plane: SessionManager's start_media, pump_media and    *)
(* stop_media (apps/host/src/session.rs) over the capture backends         *)
(* (platform_capture.rs, platform-windows capture/ and wasapi/,            *)
(* platform-linux), the H.264 encoders (platform-windows encode/), the     *)
(* mock Opus packer and the RTP clock (packages/media), and what the       *)
(* viewer's mock decoder makes of an access unit.                          *)
(*                                                                         *)
(* The host's clock counts audio packets (10 ms).  A frame is its geometry,*)
(* byte order, byte count and colour; real H.264 from Media Foundation is  *)
(* opaque.  DXGI, WASAPI and the Media Foundation transform are external:  *)
(* the desktop changes, is locked and unlocked, changes size, the audio    *)
(* device delivers packets or nothing, calls succeed or fail.              *)
(***************************************************************************)
EXTENDS Integers, Sequences, FiniteSets, SequencesExt, FiniteSetsExt

CONSTANTS
    VideoKinds, AudioKinds, \* VideoCaptureKind, AudioCaptureKind considered
    Uptimes,        \* the host's clock when the behaviour starts
    Sizes,          \* desktop sizes <<width, height>>
    Pads,           \* bytes of padding of a DXGI row
    SynthSize,      \* set_synthetic_geometry
    FrameTicks,     \* 1 / fps in packets
    MaxPreviewW, MaxPreviewH,
    KeyInterval,    \* 30 in the code
    AudioPerFrame,  \* 3 in the code
    ExclusivePackets, \* exclusive_silence_ms in packets
    AudioRate, VideoRate, RtpWrap, \* RTP ticks per packet, 2^32
    Backlog,        \* bound: packets the audio device holds
    MaxAudio,       \* bound: audio packets sent by one plane
    MaxHost         \* bound: time that passes

\* The capture backends a host may be configured with.
VideoCaptureKind ==
    {"synthetic", "linux_mock", "linux_platform", "windows_mock", "windows_dxgi"}
AudioCaptureKind ==
    {"synthetic", "linux_mock", "linux_prefer", "linux_native",
     "win_stub", "win_prefer", "win_native"}

ASSUME MediaPlaneAssumption ==
    /\ VideoKinds \subseteq VideoCaptureKind /\ AudioKinds \subseteq AudioCaptureKind
    /\ Uptimes \subseteq Nat /\ Pads \subseteq Nat
    /\ \A s \in Sizes \cup {SynthSize} : s[1] \in Nat \ {0} /\ s[2] \in Nat \ {0}
    /\ {FrameTicks, MaxPreviewW, MaxPreviewH, KeyInterval, AudioPerFrame, ExclusivePackets,
        AudioRate, VideoRate, RtpWrap, MaxAudio} \subseteq Nat \ {0}
    /\ {Backlog, MaxHost} \subseteq Nat

VARIABLES
    host, boot,     \* host_mono_now, and its value when the behaviour starts
    windows,        \* built for Windows: WASAPI and Media Foundation exist
    vkind, akind, force_software,
    connected,      \* the peer transport
    desktop,        \* [size, colour, pad, dirty, locked]
    device,         \* packets at the audio device: TRUE for a silent one
    plane,          \* the MediaPlane, NoPlane for None
    au,             \* the last access unit encoded, with the frame it is of
    audio,          \* the last audio packet encoded
    asked,          \* a keyframe was requested and none was encoded since
    since_key,      \* access units sent since the last keyframe that was
    lost_keys       \* keyframes since then whose sending failed

mvars == <<host, boot, windows, vkind, akind, force_software, connected, desktop, device,
           plane, au, audio, asked, since_key, lost_keys>>
config == <<boot, windows, vkind, akind, force_software>>
units == <<au, asked, since_key, lost_keys>>
outcome == <<audio, units>>

None == "none"
Nothing == <<>>
NoPlane == [open |-> FALSE]
Colours == {"red", "blue"}

\* PixelFormat::bytes_per_pixel
BytesPerPixel(fmt) == IF fmt = "rgb24" THEN 3 ELSE 4

\* host_mono_to_rtp_ts: elapsed ticks, modulo the width of the field.
RtpTs(pts, t0, rate) == ((IF pts > t0 THEN pts - t0 ELSE 0) * rate) % RtpWrap

MediaInit ==
    /\ boot \in Uptimes /\ host = boot
    /\ windows \in BOOLEAN
    /\ vkind \in (IF windows THEN VideoKinds ELSE VideoKinds \ {"windows_dxgi"})
    /\ akind \in AudioKinds /\ force_software \in BOOLEAN
    /\ connected = FALSE
    /\ desktop \in [size : Sizes, colour : {"red"}, pad : Pads, dirty : {TRUE}, locked : {FALSE}]
    /\ device = <<>> /\ plane = NoPlane
    /\ au = Nothing /\ audio = Nothing /\ asked = FALSE /\ since_key = 0 /\ lost_keys = 0

-----------------------------------------------------------------------------
(***************************************************************************)
(* Opening.  t0 is Duration 0 for the epoch and for every source.          *)
(***************************************************************************)
T0 == 0

\* DxgiDesktopDuplication::open: denied while the desktop is locked.
OpenDxgi == windows /\ ~desktop.locked

\* NativePipeWireCapture::try_open is not linked.
OpenPipeWire == FALSE

\* open_video_source: synthetic and mock sources always open.
OpenVideoSource(kind) ==
    CASE kind = "windows_dxgi" -> OpenDxgi
      [] kind = "linux_platform" -> OpenPipeWire
      [] OTHER -> TRUE

\* windows_try_open: the device, its mix format, the client and its capture
\* service; any of the calls may fail.
OpenNativeLoopback(works) == windows /\ works

\* open_loopback_with_hooks: PreferNative falls back to the stub.
OpenLoopback(kind, works) ==
    CASE kind = "win_stub" -> "stub"
      [] kind = "win_native" -> IF OpenNativeLoopback(works) THEN "native" ELSE None
      [] kind = "win_prefer" -> IF OpenNativeLoopback(works) THEN "native" ELSE "stub"

\* NativePipeWireMonitor::try_open is not linked.
OpenNativeMonitor == FALSE

\* open_monitor_with_name: PreferNative falls back to the mock.
OpenMonitor(kind) == IF kind = "linux_native" /\ ~OpenNativeMonitor THEN None ELSE "monitor"

\* open_audio_source
OpenAudioSource(kind, works) ==
    CASE kind = "synthetic" -> "tone"
      [] kind \in {"win_stub", "win_prefer", "win_native"} -> OpenLoopback(kind, works)
      [] OTHER -> OpenMonitor(kind)

\* MediaFoundationEncoder::try_open: the transform, its types and its start.
OpenMf(works) == windows /\ works

\* HardwareEncoderStub::try_open: no vendor SDK is linked.
OpenHardware == FALSE

\* EncoderConfig::prefer_software: a policy or a debug flag.
PreferSoftware == force_software

\* open_encoder: Media Foundation, a vendor SDK, else the software mock.
OpenEncoder(works) ==
    CASE PreferSoftware -> "software"
      [] ~PreferSoftware /\ OpenMf(works) -> "mf"
      [] ~PreferSoftware /\ ~OpenMf(works) -> IF OpenHardware THEN "hardware" ELSE "software"

\* An audio source that was just opened, and its silence watch.
NewAudio(works) ==
    [audio |-> OpenAudioSource(akind, works), start_pts |-> T0, index |-> 0,
     pending |-> <<>>, streak |-> 0, warned |-> FALSE, warnings |-> 0]

\* An encoder that was just opened owes a keyframe.
NewEncoder(works) ==
    [encoder |-> OpenEncoder(works), frames_encoded |-> 0, keyframe_pending |-> TRUE]

\* start_media opens capture, audio and encoder, in that order.
NewPlane(kind, a_works, e_works) ==
    LET a == NewAudio(a_works)
        e == NewEncoder(e_works)
    IN [open |-> TRUE, video |-> kind, next_pts |-> T0, next_rtp_ts |-> 0, video_frames_sent |-> 0,
        audio |-> a.audio, start_pts |-> a.start_pts, index |-> a.index, pending |-> a.pending,
        streak |-> a.streak, warned |-> a.warned, warnings |-> a.warnings,
        encoder |-> e.encoder, frames_encoded |-> e.frames_encoded,
        keyframe_pending |-> e.keyframe_pending]

CanOpen(kind, a_works) ==
    OpenVideoSource(kind) /\ OpenAudioSource(akind, a_works) # None

\* start_media; the caller of a live session falls back to the mock desktop
\* when the capture does not open, and gives up when that fails too.
StartMedia ==
    /\ ~plane.open
    /\ \E a_works, e_works \in BOOLEAN :
        /\ IF CanOpen(vkind, a_works)
           THEN plane' = NewPlane(vkind, a_works, e_works) /\ UNCHANGED vkind
           ELSE /\ vkind' = "windows_mock"
                /\ plane' = IF CanOpen("windows_mock", a_works)
                            THEN NewPlane("windows_mock", a_works, e_works) ELSE NoPlane
    /\ device' = <<>>
    /\ au' = Nothing /\ audio' = Nothing /\ asked' = FALSE /\ since_key' = 0 /\ lost_keys' = 0
    /\ UNCHANGED <<host, boot, windows, akind, force_software, connected, desktop>>

\* stop_media: sources, encoder and epoch are dropped.
StopMedia ==
    /\ plane.open
    /\ plane' = NoPlane
    /\ UNCHANGED <<host, config, connected, desktop, device, outcome>>

-----------------------------------------------------------------------------
(***************************************************************************)
(* Audio.                                                                  *)
(***************************************************************************)

\* note_energy: one warning when a silence becomes long, another only after
\* sound was heard again.
NoteEnergy(p, silent) ==
    IF silent
    THEN LET warn == ~p.warned /\ p.streak + 1 >= ExclusivePackets
         IN [p EXCEPT !.streak = @ + 1, !.warned = @ \/ warn,
                      !.warnings = IF warn THEN @ + 1 ELSE @]
    ELSE [p EXCEPT !.streak = 0, !.warned = FALSE, !.warnings = 0]

\* pull_from_device: every packet the device has is appended.
PullFromDevice(p) == [p EXCEPT !.pending = @ \o device]

\* take_packet: a full packet, stamped from the count of samples emitted.
TakePacket(p) ==
    NoteEnergy([p EXCEPT !.pending = Tail(@), !.index = @ + 1], Head(p.pending))

\* render_packet of the stub loopback; its tone is never near silence.
RenderStub(p) == NoteEnergy([p EXCEPT !.index = @ + 1], FALSE)

\* next_frame of the synthetic tone and of the Linux mock monitor.
RenderTone(p) == [p EXCEPT !.index = @ + 1]
RenderMonitor(p) == [p EXCEPT !.index = @ + 1]

\* MockOpusEncoder::encode stamps from the shared epoch.
Stamp(p, pts) == RtpTs(pts, T0, AudioRate)

\* ... and predicts the next stamp from the packet's duration.
EncodeOpus(p, pts) ==
    [p EXCEPT !.next_rtp_ts =
        LET ts == Stamp(p, pts) IN (ts + ((RtpTs(pts + 1, T0, AudioRate) - ts) % RtpWrap)) % RtpWrap]

\* The packet for the wire, with the stamp that was predicted for it.
AudioPacket(p, pts) ==
    [pts |-> pts, rtp |-> Stamp(p, pts),
     predicted |-> IF pts = p.start_pts THEN Stamp(p, pts) ELSE p.next_rtp_ts]

\* One audio turn of pump_media: next_frame, encode, send_audio.
AudioTurn(acc) ==
    LET p == acc.plane
        pts == p.start_pts + p.index
        send(q) == [plane |-> EncodeOpus(q, pts), last |-> AudioPacket(p, pts)]
    IN CASE p.audio = "native" -> IF p.pending = <<>> THEN acc ELSE send(TakePacket(p))
         [] p.audio = "stub" -> send(RenderStub(p))
         [] p.audio = "monitor" -> send(RenderMonitor(p))
         [] OTHER -> send(RenderTone(p))

\* The first n audio turns before a video frame.
AudioTurnsUpTo(n) ==
    LET start == [plane |-> IF plane.audio = "native" THEN PullFromDevice(plane) ELSE plane,
                  last |-> audio]
        turn[i \in 0..n] == IF i = 0 THEN start ELSE AudioTurn(turn[i - 1])
    IN turn[n]

\* All of them.
AudioTurns == AudioTurnsUpTo(AudioPerFrame)

\* What the turns leave behind; the native client has drained its device.
AudioSent(turns) ==
    /\ audio' = turns.last
    /\ device' = IF plane.audio = "native" THEN <<>> ELSE device

-----------------------------------------------------------------------------
(***************************************************************************)
(* Video.                                                                  *)
(***************************************************************************)

\* copy_frame: the mapped texture, rows padded to the pitch, stamped now.
DxgiFrame ==
    [pts |-> host, w |-> desktop.size[1], h |-> desktop.size[2], fmt |-> "bgra8",
     len |-> (desktop.size[1] * 4 + desktop.pad) * desktop.size[2], colour |-> desktop.colour]

\* Mutant: the padding of the rows stays in.
PackNothing(f) == f

\* windows_frame_to_media, and media_frame_to_capture's packed(): rows are
\* copied without their padding.
Pack(f) == [f EXCEPT !.len = f.w * f.h * BytesPerPixel(f.fmt)]

\* next_frame of the Windows mock: BGRA, evenly spaced.
MockFrame(p) ==
    [pts |-> p.next_pts, w |-> SynthSize[1], h |-> SynthSize[2], fmt |-> "bgra8",
     len |-> SynthSize[1] * SynthSize[2] * 4, colour |-> "red"]

\* SyntheticVideoBars: RGB24, evenly spaced.
BarsFrame(p) ==
    [pts |-> p.next_pts, w |-> SynthSize[1], h |-> SynthSize[2], fmt |-> "rgb24",
     len |-> SynthSize[1] * SynthSize[2] * 3, colour |-> "red"]

\* next_frame of the Linux mock.
LinuxMockFrame(p) ==
    [pts |-> p.next_pts, w |-> SynthSize[1], h |-> SynthSize[2], fmt |-> "rgb24",
     len |-> SynthSize[1] * SynthSize[2] * 3, colour |-> "red"]

\* HostVideoSource::next_frame
SourceFrame(p) ==
    CASE p.video = "windows_dxgi" -> Pack(DxgiFrame)
      [] p.video = "windows_mock" -> Pack(MockFrame(p))
      [] p.video = "linux_mock" -> LinuxMockFrame(p)
      [] OTHER -> BarsFrame(p)

\* Rounding of n * num / den.
Scaled(n, num, den) ==
    LET r == (2 * n * num + den) \div (2 * den) IN IF r = 0 THEN 1 ELSE r

\* The largest size of the same shape that fits.
PreviewSize(w, h) ==
    IF w <= MaxPreviewW /\ h <= MaxPreviewH THEN <<w, h>>
    ELSE IF MaxPreviewW * h <= MaxPreviewH * w
         THEN <<Scaled(w, MaxPreviewW, w), Scaled(h, MaxPreviewW, w)>>
         ELSE <<Scaled(w, MaxPreviewH, h), Scaled(h, MaxPreviewH, h)>>

\* box_downscale_rgb: the source rows (columns) averaged into row i of d.
Box(i, s, d) ==
    LET lo == (i * s) \div d
        hi == Max({((i + 1) * s) \div d, lo + 1})
    IN lo..(Min({hi, s}) - 1)

\* pixel_rgb: the scaled picture is read through the byte order of its source.
PixelRgb(f) == [order |-> "rgb24", colour |-> f.colour]

\* preview_pixels: as it is, or scaled down to RGB24.
Preview(f) ==
    LET size == PreviewSize(f.w, f.h)
    IN IF size = <<f.w, f.h>>
       THEN [w |-> f.w, h |-> f.h, bpp |-> BytesPerPixel(f.fmt), len |-> f.len,
             order |-> f.fmt, colour |-> f.colour]
       ELSE [w |-> size[1], h |-> size[2], bpp |-> 3, len |-> size[1] * size[2] * 3,
             order |-> PixelRgb(f).order, colour |-> PixelRgb(f).colour]

\* should_keyframe
ShouldKeyframe(p, force) ==
    \/ force \/ p.keyframe_pending
    \/ p.frames_encoded = 0
    \/ p.frames_encoded % KeyInterval = 0

\* build_sps, build_pps, build_slice: the NAL units of an access unit.
BuildSps(v) == [type |-> 7, magic |-> TRUE, w |-> v.w, h |-> v.h]
BuildPps == [type |-> 8, magic |-> FALSE]
BuildSlice(v, key) == [type |-> IF key THEN 5 ELSE 1, magic |-> TRUE, sample |-> v]

\* build_sample: four-byte pixels only; what does not fit the size the
\* encoder was opened with is cut off.
BuildSample(f) ==
    IF f.fmt = "rgb24" THEN Nothing
    ELSE [w |-> Min({f.w, SynthSize[1]}), h |-> Min({f.h, SynthSize[2]})]

\* A unit of Media Foundation; its bitstream is opaque, and key is a label:
\* the transform is not asked for a keyframe.
MfUnit(f, key) ==
    [pts |-> f.pts, key |-> key, mock |-> FALSE, nals |-> <<>>, preview |-> BuildSample(f),
     frame |-> f]

\* MediaFoundationEncoder::encode: an error, "needs more input" included,
\* keeps the pending keyframe.
EncodeMf(p, f, force, ok) ==
    LET pend == force \/ p.keyframe_pending IN
    IF BuildSample(f) = Nothing \/ ~ok
    THEN [plane |-> [p EXCEPT !.keyframe_pending = pend], unit |-> Nothing]
    ELSE [plane |-> [p EXCEPT !.frames_encoded = @ + 1, !.keyframe_pending = FALSE],
          unit |-> MfUnit(f, pend \/ p.frames_encoded = 0)]

\* MockSoftwareEncoder::encode never fails on a packed frame.
EncodeSoftware(p, f, force) ==
    LET key == ShouldKeyframe(p, force)
        v == Preview(f)
    IN [plane |-> [p EXCEPT !.frames_encoded = @ + 1,
                            !.keyframe_pending = IF key THEN FALSE ELSE @],
        unit |-> [pts |-> f.pts, key |-> key, mock |-> TRUE,
                  nals |-> (IF key THEN <<BuildSps(v), BuildPps>> ELSE <<>>)
                             \o <<BuildSlice(v, key)>>,
                  preview |-> v, frame |-> f]]

Encode(p, f, force, ok) ==
    IF p.encoder = "mf" THEN EncodeMf(p, f, force, ok) ELSE EncodeSoftware(p, f, force)

\* find_mock_sps, parse_mock_slice: the first unit of the kind that carries
\* the mock encoder's magic.
FirstNal(nals, types) == nals[Min({i \in DOMAIN nals : nals[i].type \in types /\ nals[i].magic})]
ParseMockSlice(nals) == FirstNal(nals, {1, 5})

\* A keyframe by what it holds, not by its label; of a unit of Media
\* Foundation nobody can tell.
Idr(unit) == unit.mock /\ ParseMockSlice(unit.nals).type = 5

\* reconstruct_frame: three bytes are RGB, four are BGRA; a sample of another
\* length is tiled over the picture.
ReconstructFrame(v) ==
    LET fmt == IF v.bpp = 4 THEN "bgra8" ELSE "rgb24"
        swap == [red |-> "blue", blue |-> "red"]
    IN [w |-> v.w, h |-> v.h,
        intact |-> v.len = v.w * v.h * BytesPerPixel(fmt),
        colour |-> IF v.order = fmt THEN v.colour ELSE swap[v.colour]]

\* MockH264Decoder::decode of the viewer.
Decode(unit) == ReconstructFrame(ParseMockSlice(unit.nals).sample)

-----------------------------------------------------------------------------
(***************************************************************************)
(* pump_media(1): audio first, then one frame; nothing while the peer is    *)
(* not connected.                                                          *)
(***************************************************************************)
\* The access unit as it is sent, with its RTP time.
VideoNalu(unit, rtp) ==
    [pts |-> unit.pts, rtp |-> rtp, key |-> unit.key, mock |-> unit.mock, nals |-> unit.nals,
     preview |-> unit.preview, frame |-> unit.frame]

\* The bound on what one plane sends.
Room == plane.index < MaxAudio /\ plane.frames_encoded < MaxAudio

DxgiLost == plane.video = "windows_dxgi" /\ desktop.locked
DxgiIdle == plane.video = "windows_dxgi" /\ ~desktop.locked /\ ~desktop.dirty

\* AcquireNextFrame reports access lost: the audio is out, the pump fails.
PumpAccessLost ==
    /\ plane.open /\ connected /\ DxgiLost /\ Room
    /\ AudioSent(AudioTurns) /\ plane' = AudioTurns.plane
    /\ UNCHANGED <<host, config, connected, desktop, units>>

\* No desktop update in eight tries: the slot is skipped.
PumpIdle ==
    /\ plane.open /\ connected /\ DxgiIdle /\ Room
    /\ AudioSent(AudioTurns) /\ plane' = AudioTurns.plane
    /\ UNCHANGED <<host, config, connected, desktop, units>>

\* send_audio fails: the packet of turn n was encoded and counted, the pump
\* ends there.  A live agent ignores the error and pumps on.
PumpAudioFails ==
    /\ plane.open /\ connected /\ Room
    /\ \E n \in 1..AudioPerFrame :
        /\ AudioTurnsUpTo(n).plane.index > AudioTurnsUpTo(n - 1).plane.index
        /\ AudioSent(AudioTurnsUpTo(n)) /\ plane' = AudioTurnsUpTo(n).plane
    /\ UNCHANGED <<host, config, connected, desktop, units>>

\* force_key of pump_media
ForceKey(p) == p.video_frames_sent % KeyInterval = 0

\* One frame through the encoder, which may refuse it (ok), and to the peer,
\* which may fail to send it (sent) after it was counted and a pending
\* keyframe was spent on it.
PumpFrame(ok, sent) ==
    /\ plane.open /\ connected /\ ~DxgiLost /\ ~DxgiIdle
    /\ Room
    /\ AudioSent(AudioTurns)
    /\ LET p == AudioTurns.plane
           f == SourceFrame(p)
           pulled == [p EXCEPT !.next_pts = IF p.video = "windows_dxgi" THEN @ ELSE @ + FrameTicks]
           enc == Encode(pulled, f, ForceKey(p), ok)
       IN /\ desktop' = IF p.video = "windows_dxgi" THEN [desktop EXCEPT !.dirty = FALSE] ELSE desktop
          /\ IF enc.unit = Nothing
             THEN /\ plane' = enc.plane
                  /\ UNCHANGED units
             ELSE /\ plane' = [enc.plane EXCEPT !.video_frames_sent = @ + 1]
                  /\ au' = VideoNalu(enc.unit, RtpTs(f.pts, T0, VideoRate))
                  /\ since_key' = CASE ~sent -> since_key
                                    [] sent /\ Idr(enc.unit) -> 0
                                    [] OTHER -> since_key + 1
                  /\ lost_keys' = CASE ~Idr(enc.unit) -> lost_keys
                                    [] Idr(enc.unit) /\ sent -> 0
                                    [] OTHER -> lost_keys + 1
                  /\ asked' = (asked /\ ~enc.unit.key)
    /\ UNCHANGED <<host, config, connected>>

\* request_video_keyframe (PLI, FIR).  Media Foundation is told to drain as
\* well, after which it may refuse a sample (PumpFrame's ok).
RequestKeyframe ==
    /\ plane.open /\ ~asked
    /\ plane' = [plane EXCEPT !.keyframe_pending = TRUE]
    /\ asked' = TRUE
    /\ UNCHANGED <<host, config, connected, desktop, device, au, audio, since_key, lost_keys>>

-----------------------------------------------------------------------------
(***************************************************************************)
(* Surroundings.                                                           *)
(***************************************************************************)
Connection ==
    /\ connected' = ~connected
    /\ UNCHANGED <<host, config, desktop, device, plane, outcome>>

\* Time passes, where a source looks at it; a device that renders has another
\* packet.
HostTick ==
    /\ host < boot + MaxHost
    /\ vkind = "windows_dxgi" \/ (plane.open /\ plane.audio = "native")
    /\ host' = host + 1
    /\ \/ UNCHANGED device
       \/ /\ plane.open /\ plane.audio = "native" /\ Len(device) < Backlog
          /\ \E silent \in BOOLEAN : device' = Append(device, silent)
    /\ UNCHANGED <<config, connected, desktop, plane, outcome>>

\* The desktop shows something else, changes its size, or is locked (secure
\* desktop) and unlocked; of interest to DXGI alone.
DesktopChange ==
    /\ vkind = "windows_dxgi"
    /\ \/ ~desktop.dirty /\ desktop' = [desktop EXCEPT !.dirty = TRUE,
                                    !.colour = CHOOSE c \in Colours : c # desktop.colour]
       \/ \E s \in Sizes : s # desktop.size /\ desktop' = [desktop EXCEPT !.size = s, !.dirty = TRUE]
       \/ desktop' = [desktop EXCEPT !.locked = ~@, !.dirty = TRUE]
    /\ UNCHANGED <<host, config, connected, device, plane, outcome>>

MediaNext ==
    \/ StartMedia \/ StopMedia
    \/ PumpAccessLost \/ PumpIdle \/ PumpAudioFails
    \/ \E ok, sent \in BOOLEAN : PumpFrame(ok, sent)
    \/ RequestKeyframe
    \/ Connection \/ HostTick \/ DesktopChange

MediaSpec == MediaInit /\ [][MediaNext]_mvars

-----------------------------------------------------------------------------
(***************************************************************************)
(* Properties.                                                             *)
(***************************************************************************)

\* Type correctness.
MediaTypeOK ==
    /\ host \in boot..(boot + MaxHost) /\ connected \in BOOLEAN
    /\ vkind \in VideoKinds \cup {"windows_mock"} /\ akind \in AudioKinds
    /\ desktop.size \in Sizes /\ desktop.colour \in Colours
    /\ Len(device) <= Backlog
    /\ plane.open =>
        /\ plane.audio \in {"tone", "stub", "native", "monitor"}
        /\ plane.encoder \in {"mf", "software"}
        /\ plane.frames_encoded \in 0..MaxAudio /\ plane.index < MaxAudio + AudioPerFrame
        /\ plane.next_rtp_ts \in 0..(RtpWrap - 1)

\* After request_video_keyframe the next access unit that is encoded is marked
\* a keyframe, even when encodes failed in between, and is one where the
\* software made it (should_keyframe; mf.rs encode only labels its unit).  It
\* may still be lost: a request spent on a unit whose sending failed is not
\* repeated.
KeyframeHonoured ==
    [][asked /\ au' # au /\ au' # Nothing => au'.key /\ (au'.mock => Idr(au'))]_mvars

\* With the software encoder less than KeyInterval units are sent between two
\* keyframes, and no more than that again for each keyframe whose sending
\* failed (force_key, should_keyframe).
GopBounded ==
    plane.open /\ plane.encoder = "software" =>
        since_key <= (KeyInterval - 1) * (1 + lost_keys)

\* The picture the viewer's decoder builds from a software access unit is
\* the frame captured, whatever the row padding of the desktop texture, a
\* change of its size between keyframes and the byte order of the source.
PictureSurvives ==
    au # Nothing /\ au.mock =>
        /\ Decode(au).intact
        /\ Decode(au).colour = au.frame.colour
        /\ <<Decode(au).w, Decode(au).h>> = PreviewSize(au.frame.w, au.frame.h)
        /\ au.key <=> ParseMockSlice(au.nals).type = 5

\* A preview fits the limit, is no larger than its frame, keeps its shape to
\* within a pixel, and every source pixel goes into exactly one of its
\* pixels (preview_pixels, box_downscale_rgb).
PreviewFits ==
    au # Nothing /\ au.mock =>
        LET f == au.frame
            v == au.preview
            covered(s, d) == /\ UNION {Box(i, s, d) : i \in 0..(d - 1)} = 0..(s - 1)
                             /\ \A i, j \in 0..(d - 1) : i # j => Box(i, s, d) \cap Box(j, s, d) = {}
        IN /\ v.w \in 1..MaxPreviewW /\ v.h \in 1..MaxPreviewH
           /\ v.w <= f.w /\ v.h <= f.h
           /\ v.w * f.h - v.h * f.w \in -Max({f.w, f.h})..Max({f.w, f.h})
           /\ covered(f.w, v.w) /\ covered(f.h, v.h)

\* The audio timeline on the wire has neither gap nor overlap: each packet's
\* timestamp is the one predicted when the packet before it was encoded,
\* across wrap-around, idle devices and failed video.
AudioContiguous == audio # Nothing => audio.rtp = audio.predicted

\* A long silence is reported exactly once (note_energy).
SilenceReportedOnce ==
    plane.open => plane.warnings = (IF plane.streak >= ExclusivePackets THEN 1 ELSE 0)

\* Sound captured by the native client is never stamped later than the time
\* it was captured at (take_packet counts samples from media start).
AudioNotFromTheFuture ==
    plane.open /\ plane.audio = "native" => plane.index <= host - boot

\* What leaves the host can be decoded into what it captured, at any loss,
\* and its sound is on one timeline.
PlaneSound ==
    MediaTypeOK /\ GopBounded /\ PictureSurvives /\ PreviewFits
    /\ AudioContiguous /\ SilenceReportedOnce /\ AudioNotFromTheFuture
=============================================================================
