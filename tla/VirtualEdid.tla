---------------------------- MODULE VirtualEdid ----------------------------
(***************************************************************************)
(* From a requested mode to the mode the virtual connector has: which      *)
(* modes the daemon admits (svd-proto/lib.rs), the EDID it writes          *)
(* (strategy/kwin/edid.rs), and what the kernel reads back from its bytes. *)
(*                                                                         *)
(* Bytes and fields keep their width.  Products are arranged so that every *)
(* value stays below 2^31, which is as far as TLC counts.                  *)
(*                                                                         *)
(* A definition marked "Mutation" is a bug put in place of the definition  *)
(* that follows it, to show that a property can fail.                      *)
(***************************************************************************)
EXTENDS Integers, SequencesExt

Modes == [width : 1..16384, height : 1..16384, refresh : 24..480]

Mode(w, h, r) == [width |-> w, height |-> h, refresh |-> r]

VIC_TABLE ==
    {Mode(1280, 720, r) : r \in {30, 60}} \cup {Mode(1920, 1080, r) : r \in {30, 60, 120}}
      \cup {Mode(2560, 1440, r) : r \in {60, 120}} \cup {Mode(3840, 2160, r) : r \in {30, 60}}

is_mode_allowed(m, extra) == m \in VIC_TABLE \cup extra

validate_request(m, extra) ==
    CASE m \notin Modes -> "out_of_range"
      [] m \in Modes /\ ~is_mode_allowed(m, extra) -> "mode_not_allowed"
      [] OTHER -> "ok"

-----------------------------------------------------------------------------
\* generate: the 128 bytes of the base block.

AtLeast(lo, n) == IF n < lo THEN lo ELSE n
AtMost(hi, n) == IF n > hi THEN hi ELSE n
AsByte(n) == n % 256
SumOf(data) ==
    LET sum[i \in 0..Len(data)] == IF i = 0 THEN 0 ELSE sum[i - 1] + data[i]
    IN  sum[Len(data)]

Bit(n, i) == (n \div 2^i) % 2
\* The low byte of a | b.
ByteOr(a, b) == SumOf([i \in 1..8 |-> 2^(i - 1) * AtLeast(Bit(a, i - 1), Bit(b, i - 1))])

Zeros(n) == [i \in 1..n |-> 0]
LittleEndian(n, size) == [i \in 1..size |-> AsByte(n \div 256^(i - 1))]

Header == <<0, 255, 255, 255, 255, 255, 255, 0>>

\* Three letters of five bits each, given by their places in the alphabet.
encode_manufacturer_id(v1, v2, v3) == v1 * 1024 + v2 * 32 + v3

\* (width << 16) | (height << 4) | (refresh & 15), low byte first.
serial(m) ==
    <<AsByte(m.height * 16 + (m.refresh % 16)), AsByte(m.height \div 16),
      ByteOr(m.width, m.height \div 4096), AsByte(m.width \div 256)>>

\* "VRT", product code "SD", serial number, week and year, version 1.4.
Identification(m) ==
    LET mfr_id == encode_manufacturer_id(22, 18, 20)
    IN  <<mfr_id \div 256, AsByte(mfr_id), 68, 83>> \o serial(m) \o <<1, 33, 1, 4>>

\* Centimetres at 96 dots per inch.  The code computes them in floating point: a
\* multiple of 4800 pixels, which no run asks for, may come out one less.
screen_size_cm(pixels) == (pixels * 254) \div 9600

\* Digital input, size, gamma, features, primaries; no established or standard timings.
Characteristics(m) ==
    <<165, AtMost(255, screen_size_cm(m.width)), AtMost(255, screen_size_cm(m.height)), 220, 30>>
      \o <<238, 145, 163, 84, 76, 153, 38, 15, 80, 84>> \o Zeros(3) \o [i \in 1..16 |-> 1]

h_blank(m) == AtLeast(80, (m.width * 8) \div 100)
v_blank(m) == AtLeast(23, m.height \div 40)

Total(width, hb, height, vb) == (width + hb) * (height + vb)

\* Mutation: the clock of the visible pixels only.
pixel_clock_visible(m) ==
    LET t == m.width * m.height
    IN  AtMost(65535, (t \div 10000) * m.refresh + ((t % 10000) * m.refresh) \div 10000)
\* In units of 10 kHz: total * refresh / 10000, taken apart to stay small.
pixel_clock(m) ==
    LET t == Total(m.width, h_blank(m), m.height, v_blank(m))
    IN  AtMost(65535, (t \div 10000) * m.refresh + ((t % 10000) * m.refresh) \div 10000)

\* Three bytes for two numbers: the low bytes, and one that holds the high
\* nibbles of both.  `as u8` drops what does not fit.
Packed(n1, n2) ==
    <<AsByte(n1), AsByte(n2), ByteOr((n1 \div 256) * 16, n2 \div 256)>>

\* Offsets and widths of the sync pulses; the vertical ones are 2 and 6 lines.
Sync(m) ==
    LET h_sync_offset == (h_blank(m) * 2) \div 10
        h_sync_width == (h_blank(m) * 4) \div 10
    IN  <<AsByte(h_sync_offset), AsByte(h_sync_width), 2 * 16 + 6,
          ((h_sync_offset \div 256) % 4) * 64 + ((h_sync_width \div 256) % 4) * 16>>

DetailedTiming(m) ==
    LittleEndian(pixel_clock(m), 2)
      \o Packed(m.width, h_blank(m)) \o Packed(m.height, v_blank(m)) \o Sync(m)
      \o Packed(screen_size_cm(m.width) * 10, screen_size_cm(m.height) * 10) \o <<0, 0, 24>>

\* Tag 252 and the name "Display".
NameDescriptor ==
    <<0, 0, 0, 252, 0, 68, 105, 115, 112, 108, 97, 121, 10, 32, 32, 32, 32, 32>>

\* Tag 253: vertical rates, then 30 to 160 kHz and at most 2200 MHz.
RangeLimits(m) ==
    LET min_v_rate == AtLeast(24, AtLeast(0, m.refresh - 20))
        max_v_rate == m.refresh + 20
    IN  <<0, 0, 0, 253, 0, AtMost(255, min_v_rate), AtMost(255, max_v_rate), 30, 160, 220, 0, 10>>
          \o [i \in 1..6 |-> 32]

DummyDescriptor == <<0, 0, 0, 16, 0>> \o Zeros(13)

checksum(data) == (256 - (SumOf(data) % 256)) % 256

generate(m) ==
    LET block == Header \o Identification(m) \o Characteristics(m) \o DetailedTiming(m)
                   \o NameDescriptor \o RangeLimits(m) \o DummyDescriptor \o <<0>>
    IN  Append(block, checksum(block))

-----------------------------------------------------------------------------
\* External: the kernel's reading of a base block and of its first descriptor,
\* and the mode it offers when it does not accept them.  A mode has a pixel clock
\* in 10 kHz and a number of pixels per frame, which give its rate.

At(edid, i) == edid[i + 1]
IsBlock(edid) == /\ Len(edid) = 128 /\ SubSeq(edid, 1, 8) = Header /\ At(edid, 18) = 1
                 /\ SumOf(edid) % 256 = 0

Active(edid, i) == At(edid, i) + 256 * (At(edid, i + 2) \div 16)
Blank(edid, i) == At(edid, i + 1) + 256 * (At(edid, i + 2) % 16)
HasSync(edid) == /\ At(edid, 63) # 0 \/ (At(edid, 65) \div 16) % 4 # 0
                 /\ At(edid, 64) % 16 # 0 \/ At(edid, 65) % 4 # 0

Fallback == [width |-> 1024, height |-> 768, clock |-> 6500, total |-> 1344 * 806]

KernelMode(edid) ==
    LET w == Active(edid, 56)
        h == Active(edid, 59)
        clock == At(edid, 54) + 256 * At(edid, 55)
    IN  IF IsBlock(edid) /\ w >= 64 /\ h >= 64 /\ clock # 0 /\ HasSync(edid)
        THEN [width |-> w, height |-> h, clock |-> clock,
              total |-> Total(w, Blank(edid, 56), h, Blank(edid, 59))]
        ELSE Fallback

-----------------------------------------------------------------------------
\* The rate of a mode is within half a hertz of r: 2 * |rate - r| <= 1.
RateIsAbout(k, r) ==
    LET y == 20000 * k.clock
    IN  k.total <= y \div (2 * r - 1) /\ k.total >= (y + 2 * r) \div (2 * r + 1)

\* What the descriptor can say: 12 bits for each size, a clock that fits 16 bits,
\* and a frame large enough for the clock's granularity to be half a hertz.
Representable(m) ==
    LET t == Total(m.width, h_blank(m), m.height, v_blank(m))
    IN  /\ m.width \in 64..4095 /\ m.height \in 64..4095
        /\ t >= 20000 /\ t <= 655350000 \div m.refresh
=============================================================================
