------------------------------- MODULE SpiLink -------------------------------
(***************************************************************************)
(* The SAMD09 firmware and the metering task of the ESP32 over the wire    *)
(* between them: what the task makes of each transaction, when it believes *)
(* that samples follow one another and when it starts its measurement      *)
(* window over.  Transactions may be damaged or lost.                      *)
(***************************************************************************)
EXTENDS SamdSpi

VARIABLES
  expected,   (* spi_expected_sample_counter_, {} while it is not valid     *)
  window      (* scans processed since the last reset_spi_metering_state_   *)

linkVars == <<vars, expected, window>>

LinkInit == Init /\ expected = {} /\ window = <<>>

(* validate_spi_frame_ accepts the transaction.                             *)
ProtocolValid(w) == Len(w) = Parts /\ w[Parts] = SubSeq(w, 1, Scans + 1)

(* The flags process_spi_frame_ takes for a sample error.                   *)
SampleErrors == {"DMA_ERROR", "ADC_OVERRUN"}

ResetMetering == expected' = {} /\ window' = <<>>

(* decode_spi_raw_frame_.                                                   *)
Decode(w) ==
  LET first == w[1][3]
      ticks == [i \in 1 .. Scans |-> w[i + 1][1]]
  IN  /\ window' = IF expected \subseteq {first} THEN window \o ticks ELSE ticks
      /\ expected' = {first + Scans}

(* process_spi_frame_: a transaction that is not valid changes nothing.     *)
Process(w) ==
  \/ ~ProtocolValid(w) /\ UNCHANGED <<expected, window>>
  \/ ProtocolValid(w) /\ w[1][2] \cap SampleErrors # {} /\ ResetMetering
  \/ ProtocolValid(w) /\ w[1][2] \cap SampleErrors = {} /\ Decode(w)

(* The end of a transaction is the release of chip select; noise damages    *)
(* it, or the receive task has no frame or queue slot for it.               *)
Transmit ==
  /\ Next /\ cs /\ ~cs'
  /\ Process(wire) \/ UNCHANGED <<expected, window>>

Elsewhere == Next /\ ~(cs /\ ~cs') /\ UNCHANGED <<expected, window>>

(* restart_spi_receiver_ with a reset of the SAMD09: the firmware starts    *)
(* over and both ends forget; time goes on.                                 *)
RestartLink ==
  /\ frame' = [b \in Buffers |-> EmptyFrame]
  /\ build' = 0 /\ scan' = 0
  /\ ring' = [i \in 0 .. Cap - 1 |-> 0] /\ head' = 0 /\ count' = 0
  /\ pending' = {} /\ sequence' = 0 /\ counter' = 0
  /\ active' = FALSE /\ awaiting' = FALSE /\ discard' = TRUE
  /\ main' = "poll" /\ chosen' = 0 /\ crc' = <<>> /\ isr' = "off"
  /\ adc' = "none"
  /\ channel' = "off" /\ sent' = 0 /\ txIrq' = "none"
  /\ shift' = <<>> /\ txc' = FALSE /\ txcOn' = FALSE
  /\ cs' = FALSE /\ wire' = <<>>
  /\ ResetMetering
  /\ UNCHANGED <<tick, faults>>

LinkNext == Transmit \/ Elsewhere \/ RestartLink

LinkSpec == LinkInit /\ [][LinkNext]_linkVars

-----------------------------------------------------------------------------
(* A measurement window never spans a hole in the sampling, whatever was    *)
(* dropped, damaged, aborted, discarded or restarted: the sample counter    *)
(* tells of scans that were taken and lost, the flags of scans that were    *)
(* not taken.                                                               *)
WindowHasNoHole ==
  \A i \in 1 .. Len(window) - 1 : window[i + 1] = window[i] + 1
=============================================================================
