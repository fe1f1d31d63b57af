---------------------------- MODULE FeatureMagic ----------------------------
(***************************************************************************)
(* The 32-bit carrier of the feature handshake (FeatureMagic.hpp).  A      *)
(* token is the signed Cap parameter of ClientCapBandwidth:                *)
(*   [31:24] 0x6D | [23:16] feature id | [15:0] feature release            *)
(* The code casts to an unsigned value and masks.  \div and % round down   *)
(* in TLA+, so on a signed integer they select the same bits of its two's  *)
(* complement representation.                                              *)
(***************************************************************************)
EXTENDS Integers

\* The units of the id field and of the magic byte.
IdUnit == 65536
MagicUnit == 256 * IdUnit

Int32 == ((-127) * MagicUnit - MagicUnit) .. (127 * MagicUnit + (MagicUnit - 1))
FeatureId == 0 .. 255
FeatureRelease == 0 .. IdUnit - 1

MagicByte == 109                          \* 0x6D

IsToken(token) == (token \div MagicUnit) % 256 = MagicByte

MakeToken(id, release) == MagicByte * MagicUnit + id * IdUnit + release

GetFeatureId(token) == (token \div IdUnit) % 256

\* Deliberate fault, used by no specification: the id is not masked off.
UnmaskedRelease(token) == token

GetFeatureRelease(token) == token % IdUnit
=============================================================================
