-------------------------------- MODULE AirTime --------------------------------
(* How long a frame is on the air: LoraPhy::GetOnAirTime with the parameters    *)
(* both MACs use, an explicit header, a checksum, a coding rate of 4/5 and      *)
(* eight symbols of preamble.                                                  *)
EXTENDS Integers

\* Microseconds.  Both tables of data rates only use these two bandwidths.
SymbolTime(sf, bandwidth) == (2^sf * 1000) \div (bandwidth \div 1000)

\* size counts the headers too, so it is at least 9.  (The code computes with
\* unsigned numbers, which wrap for frames of one or two bytes.)
PayloadSymbols(sf, size, lowDataRateOptimization) ==
  LET num == 8 * size - 4 * sf + 28 + 16
      den == 4 * (sf - IF lowDataRateOptimization THEN 2 ELSE 0)
  IN  8 + 5 * ((num + den - 1) \div den)

GetOnAirTime(sf, bandwidth, size, lowDataRateOptimization) ==
  LET tSym == SymbolTime(sf, bandwidth)
  IN  (49 * tSym) \div 4 + PayloadSymbols(sf, size, lowDataRateOptimization) * tSym
===============================================================================
