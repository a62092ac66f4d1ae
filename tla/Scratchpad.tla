----------------------------- MODULE Scratchpad -----------------------------
(***************************************************************************)
(* ReadTemp of DS18x20SingleWire.ino: from the bytes that the sensor sends *)
(* to a temperature in 1/16 degrees Celsius, a 16 bit signed number whose  *)
(* low bits mean nothing when the sensor's resolution is low.  The branch  *)
(* for a DS18S20 is left out: no device makes *type_s true, since the case *)
(* label for its family is commented out.                                  *)
(***************************************************************************)
EXTENDS Integers

int16(n) == IF n < 32768 THEN n ELSE n - 65536

withoutLowBits(raw, bits) == raw - (raw % 2 ^ bits)

(* The resolution is in bits 5 and 6 of the configuration byte data[4]. *)
resolution(data4) == (data4 \div 32) % 4

celsiusUnsigned(data0, data1, data4) ==              \* mutant: an int instead of int16_t
  withoutLowBits(data1 * 256 + data0, 3 - resolution(data4))

celsius(data0, data1, data4) ==
  withoutLowBits(int16(data1 * 256 + data0), 3 - resolution(data4))

-----------------------------------------------------------------------------
(* What the data sheet says: bit i counts 2^i sixteenths, bit 15 is the sign     *)
(* and counts -2^15, and of the low bits those are undefined that the          *)
(* resolution leaves out.                                                      *)
bit(n, i) == (n \div 2 ^ i) % 2

(* What the defined bits of a word add up to, below bit i for every i.           *)
Below(n, undefined) ==
  LET sum[i \in 0..15] ==
        IF i = 0 THEN 0
        ELSE sum[i - 1] + (IF i > undefined THEN bit(n, i - 1) * 2 ^ (i - 1) ELSE 0)
  IN  sum

Temperature(data0, data1, data4) ==
  Below(data1 * 256 + data0, 3 - resolution(data4))[15] - bit(data1, 7) * 2 ^ 15

(* That is what ReadTemp reads, of any two bytes and at each resolution. *)
BytesAreTemperature ==
  \A data1 \in 0..255, data0 \in 0..255, r \in 0..3 :
    celsius(data0, data1, 31 + 32 * r) = Temperature(data0, data1, 31 + 32 * r)
=============================================================================
