----------------------------- MODULE MCEncodeECI -----------------------------
(***************************************************************************)
(* EncodeStream on inputs that begin with an ECI header.  The estimate of  *)
(* such an entry is 16 bits too long (QRinput_estimateBitStreamSizeOfEntry *)
(* falls through to the chunk count), so the smallest version is not found *)
(* where those bits decide it.                                             *)
(***************************************************************************)
EXTENDS EncodeStream, BitCounts

ECIData == {<<"QR", <<ECIEntry(bytes), Entry("B8", n)>>>> : bytes \in 1..3, n \in 10..20}
MCData  == ECIData

MCEstimated(d, v) == QRinput_estimateBitStreamSize(d[2], v)
MCEncoded(d, v)   == QRinput_createBitStream(d[2], v)
MCEncodable(d, v) == TRUE
=============================================================================
