------------------------------- MODULE UartRx -------------------------------
(***************************************************************************)
(* The receiver of the serial line: USART1_IRQHandler puts a line that     *)
(* ends in CR LF together in USART_RX_BUF, usmart_scan, which the          *)
(* interrupt of TIM4 calls, executes it and gives the buffer back.         *)
(*                                                                         *)
(* The interrupt of TIM4 has the higher priority: it comes between any two *)
(* steps of USART1_IRQHandler, and bytes that arrive while it runs wait in *)
(* the one register of the USART, where they are overrun.                  *)
(***************************************************************************)
EXTENDS Integers, Sequences

CONSTANTS USART_REC_LEN,    \* bytes of the buffer
          Char,             \* bytes that are neither CR nor LF
          CR, LF, NUL,
          MaxLine           \* bound: bytes of a line

Byte == Char \cup {CR, LF}

ASSUME UartAssumption ==
    /\ USART_REC_LEN \in Nat \ {0} /\ MaxLine \in Nat
    /\ CR # LF /\ CR \notin Char /\ LF \notin Char /\ NUL \notin Char

VARIABLES rdr,          \* DR and RXNE: the received byte, if any
          ore,          \* SR: a byte was overrun
          isr,          \* where USART1_IRQHandler is
          seen,         \* ORE was set when it read SR
          Res,          \* the byte it has read
          count, cr, complete, \* USART_RX_STA: bits 0 to 13, bit 14, bit 15
          USART_RX_BUF,
          scanning,     \* usmart_scan executes the line
          line          \* what has been accepted since the line began

usart == <<rdr, ore>>
handler == <<isr, seen, Res>>
sta == <<count, cr, complete>>
vars == <<usart, handler, sta, USART_RX_BUF, scanning, line>>

None == <<>>
Index == 0..(USART_REC_LEN - 1)

(* The USART. *)
ByteArrives(b) ==
    /\ IF rdr = None THEN rdr' = <<b>> /\ UNCHANGED ore
       ELSE ore' = TRUE /\ UNCHANGED rdr
    /\ UNCHANGED <<handler, sta, USART_RX_BUF, scanning, line>>

-----------------------------------------------------------------------------
(* USART1_IRQHandler. *)

(* It is also called for an overrun alone, and then returns at once. *)
ReadStatus ==
    /\ ~scanning /\ isr = "idle" /\ rdr # None
    /\ seen' = ore
    /\ isr' = "receive"
    /\ UNCHANGED <<usart, Res, sta, USART_RX_BUF, scanning, line>>

(* USART_ReceiveData: reading DR clears an overrun that SR has shown. *)
USART_ReceiveData ==
    /\ ~scanning /\ isr = "receive"
    /\ Res' = rdr /\ rdr' = None
    /\ ore' = (ore /\ ~seen) /\ seen' = FALSE
    /\ isr' = "test"
    /\ UNCHANGED <<sta, USART_RX_BUF, scanning, line>>

(* A byte is thrown away while a complete line is not yet executed.        *)
(* Mutant: it is not.                                                      *)
TestNothing ==
    /\ ~scanning /\ isr = "test"
    /\ isr' = "assemble" /\ Res' = Res
    /\ UNCHANGED <<usart, seen, sta, USART_RX_BUF, scanning, line>>
TestComplete ==
    /\ ~scanning /\ isr = "test"
    /\ IF complete THEN isr' = "idle" /\ Res' = None ELSE isr' = "assemble" /\ Res' = Res
    /\ UNCHANGED <<usart, seen, sta, USART_RX_BUF, scanning, line>>

(* Mutant: the count may reach the length of the buffer.                   *)
CountedLate(n) == IF n + 1 > USART_REC_LEN THEN 0 ELSE n + 1
Counted(n) == IF n + 1 > USART_REC_LEN - 1 THEN 0 ELSE n + 1

AfterCr ==
    /\ cr
    /\ IF Res[1] = LF THEN complete' = TRUE /\ UNCHANGED <<count, cr, line>>
       ELSE count' = 0 /\ cr' = FALSE /\ line' = <<>> /\ UNCHANGED complete
    /\ UNCHANGED USART_RX_BUF

SeesCr ==
    /\ ~cr /\ Res[1] = CR
    /\ cr' = TRUE
    /\ UNCHANGED <<count, complete, USART_RX_BUF, line>>

Stores ==
    /\ ~cr /\ Res[1] # CR /\ Len(line) < MaxLine
    /\ USART_RX_BUF' = [USART_RX_BUF EXCEPT ![count] = Res[1]]
    /\ count' = Counted(count)
    /\ line' = Append(line, Res[1])
    /\ UNCHANGED <<cr, complete>>

Assemble ==
    /\ ~scanning /\ isr = "assemble"
    /\ AfterCr \/ SeesCr \/ Stores
    /\ isr' = "idle" /\ Res' = None
    /\ UNCHANGED <<usart, seen, scanning>>

-----------------------------------------------------------------------------
(* usmart_scan in TIM4_IRQHandler. *)

ScanBegins ==
    /\ ~scanning /\ complete
    /\ scanning' = TRUE
    /\ USART_RX_BUF' = [USART_RX_BUF EXCEPT ![count] = NUL]
    /\ UNCHANGED <<usart, handler, sta, line>>

ScanEnds ==
    /\ scanning
    /\ scanning' = FALSE
    /\ count' = 0 /\ cr' = FALSE /\ complete' = FALSE
    /\ line' = <<>>
    /\ UNCHANGED <<usart, handler, USART_RX_BUF>>

Init ==
    /\ rdr = None /\ ore = FALSE
    /\ isr = "idle" /\ seen = FALSE /\ Res = None
    /\ count = 0 /\ cr = FALSE /\ complete = FALSE
    /\ USART_RX_BUF = [i \in Index |-> NUL]
    /\ scanning = FALSE /\ line = <<>>

USART1_IRQHandler == ReadStatus \/ USART_ReceiveData \/ TestComplete \/ Assemble

Next == (\E b \in Byte : ByteArrives(b)) \/ USART1_IRQHandler \/ ScanBegins \/ ScanEnds

Spec == Init /\ [][Next]_vars

-----------------------------------------------------------------------------

(* Every variable keeps its type; an index never leaves the buffer, also   *)
(* not that of the terminator.                                             *)
TypeOK ==
    /\ rdr \in {None} \cup {<<b>> : b \in Byte} /\ ore \in BOOLEAN
    /\ isr \in {"idle", "receive", "test", "assemble"} /\ seen \in BOOLEAN
    /\ Res \in {None} \cup {<<b>> : b \in Byte}
    /\ count \in Index /\ cr \in BOOLEAN /\ complete \in BOOLEAN
    /\ USART_RX_BUF \in [Index -> Byte \cup {NUL}]
    /\ scanning \in BOOLEAN /\ line \in Seq(Byte)

(* The buffer holds the end of the line that has been accepted, all of it  *)
(* if it is shorter than the buffer; a complete line stays as it is until  *)
(* usmart_scan has executed it, with a terminator behind it.               *)
LineExact ==
    /\ count = Len(line) % USART_REC_LEN
    /\ \A i \in 0..(count - 1) : USART_RX_BUF[i] = line[Len(line) - count + i + 1]
    /\ complete => cr
    /\ scanning => complete /\ USART_RX_BUF[count] = NUL
=============================================================================
