-------------------------------- MODULE Tty --------------------------------
(***************************************************************************)
(* The terminal: the serial line's interrupt handler (uart.c) collects the *)
(* characters that have arrived, the handler of its parent device (tty.c,  *)
(* reached through device_interrupt_handler()) edits them into the queue   *)
(* that tty_read() takes lines from.                                       *)
(*                                                                         *)
(* A step is one section of uart_rxbuf_lock or of tty_queue_lock.  The     *)
(* interrupt controller raises the line's interrupt again only after both  *)
(* handlers are done.  The echo on the screen is left out, and so is the   *)
(* test of killed() before a reader sleeps: only a process's own faults    *)
(* and kill() calls set its flag, and it leaves the kernel through         *)
(* do_exit() before it can read again.                                     *)
(***************************************************************************)
EXTENDS RingQueue, SequencesExt

CONSTANTS
    Readers,        \* processes that read from the terminal
    Chars,          \* characters that are typed
    TTY_BUF_SIZE, UART_BUF_SIZE,
    MaxBurst,       \* bound: characters waiting at an interrupt
    MaxCnt          \* bound: bytes asked for by a read

ASSUME TtyAssumption ==
    /\ TTY_BUF_SIZE \in Nat \ {0} /\ UART_BUF_SIZE \in Nat \ {0}
    /\ MaxBurst \in Nat /\ MaxCnt \in Nat \ {0}

LineEnds == {"NL", "EOT"}

VARIABLES
    rx,             \* uart_rx_queue, oldest first
    secondary_q,    \* the edited characters
    tty_wait_list,  \* readers asleep
    ended,          \* history: did the last burst end with the end of a line?
    uart_done,      \* is the tty's handler due?
    reader_pc, cnt, nread   \* the reads under way: bytes asked for, bytes so far

ttyVars == <<rx, secondary_q, tty_wait_list, ended, uart_done, reader_pc, cnt, nread>>
readVars == <<reader_pc, cnt, nread>>

(* tty_init() and uart_queue_init().                                       *)
TtyInit ==
    /\ rx = <<>> /\ secondary_q = queue_init(TTY_BUF_SIZE, "NL")
    /\ tty_wait_list = {} /\ ended = FALSE /\ uart_done = FALSE
    /\ reader_pc = [p \in Readers |-> "idle"]
    /\ cnt = [p \in Readers |-> 1] /\ nread = [p \in Readers |-> 0]
-----------------------------------------------------------------------------
(* do_uart_interrupt(): what has arrived goes to rx; when that is full the *)
(* oldest character goes.                                                  *)
do_uart_interrupt ==
    /\ ~uart_done
    /\ \E b \in SeqOf(Chars, MaxBurst) :
         LET all == rx \o b
             over == IF Len(all) > UART_BUF_SIZE THEN Len(all) - UART_BUF_SIZE ELSE 0
         IN  rx' = SubSeq(all, over + 1, Len(all))
    /\ uart_done' = TRUE
    /\ UNCHANGED <<secondary_q, tty_wait_list, ended, readVars>>

Converted(c) == IF c = "CR" THEN "NL" ELSE c

(* The loop body of copy_to_cooked(): a tab is dropped, backspace erases,  *)
(* a full queue loses its oldest character.                                *)
Cooked(q, c) ==
    CASE c = "TAB" -> q
      [] c = "BACKSPACE" -> IF queue_empty(q) THEN q ELSE queue_back_pop(q)
      [] OTHER -> queue_push(IF queue_full(q) THEN queue_front_pop(q) ELSE q, Converted(c))

(* The whole loop, over the characters s.                                  *)
CookedAll(q, s) ==
    LET after[i \in 0 .. Len(s)] == IF i = 0 THEN q ELSE Cooked(after[i - 1], s[i])
    IN  after[Len(s)]

(* Mutant: carriage return does not wake the readers.                      *)
LastSeenRaw == IF rx = <<>> THEN "0" ELSE Last(rx)

(* The character the local variable ch holds after the loop.               *)
LastSeen == IF rx = <<>> THEN "0" ELSE Converted(Last(rx))

(* do_tty_interrupt(): copy_to_cooked() empties rx; readers are woken when *)
(* the last character ends a line.                                         *)
copy_to_cooked ==
    /\ uart_done
    /\ secondary_q' = CookedAll(secondary_q, rx)
    /\ rx' = <<>>
    /\ ended' = (rx # <<>> /\ Converted(Last(rx)) \in LineEnds)
    /\ tty_wait_list' = IF LastSeen \in LineEnds THEN {} ELSE tty_wait_list
    /\ uart_done' = FALSE
    /\ UNCHANGED readVars
-----------------------------------------------------------------------------
ReadCall(p) ==
    /\ reader_pc[p] = "idle"
    /\ \E c \in 1 .. MaxCnt : cnt' = [cnt EXCEPT ![p] = c]
    /\ reader_pc' = [reader_pc EXCEPT ![p] = "read"]
    /\ UNCHANGED <<rx, secondary_q, tty_wait_list, ended, uart_done, nread>>

Return(p) ==
    /\ reader_pc' = [reader_pc EXCEPT ![p] = "idle"]
    /\ nread' = [nread EXCEPT ![p] = 0] /\ cnt' = [cnt EXCEPT ![p] = 1]

(* The queue after k characters have been taken from its front.            *)
PopFront(q, k) ==
    LET after[i \in 0 .. k] == IF i = 0 THEN q ELSE queue_front_pop(after[i - 1])
    IN  after[k]

(* The places where p's loop ends: a line's end, or enough bytes.          *)
Ends(p) == {i \in 1 .. secondary_q.size :
              Elements(secondary_q)[i] \in LineEnds \/ nread[p] + i = cnt[p]}

AtRead(p) == reader_pc[p] = "read" /\ p \notin tty_wait_list

(* tty_read() has what it needs and returns.                               *)
ReadReturns(p) ==
    /\ AtRead(p) /\ Ends(p) # {}
    /\ secondary_q' = PopFront(secondary_q, Min(Ends(p)))
    /\ Return(p)
    /\ UNCHANGED <<rx, tty_wait_list, ended, uart_done>>

(* It takes what there is and sleeps for the rest.                         *)
ReadSleeps(p) ==
    /\ AtRead(p) /\ Ends(p) = {}
    /\ nread' = [nread EXCEPT ![p] = @ + secondary_q.size]
    /\ secondary_q' = PopFront(secondary_q, secondary_q.size)
    /\ tty_wait_list' = tty_wait_list \cup {p}
    /\ UNCHANGED <<rx, ended, uart_done, reader_pc, cnt>>
-----------------------------------------------------------------------------
ReadStep(p) == ReadReturns(p) \/ ReadSleeps(p)

TtyNext ==
    \/ do_uart_interrupt \/ copy_to_cooked
    \/ \E p \in Readers : ReadCall(p) \/ ReadStep(p)

TtySpec == TtyInit /\ [][TtyNext]_ttyVars
-----------------------------------------------------------------------------
(* Properties                                                              *)

Line == INSTANCE EditedLine WITH Cap <- TTY_BUF_SIZE, arrived <- rx,
                                 line <- Elements(secondary_q)

(* queue.c and tty.c together, with the ring wrapping, overflowing and     *)
(* being erased from its tail, keep the line that was typed.               *)
ImplementsLine == Line!Spec

(* The wake-up of copy_to_cooked(): while a whole line is in the queue a   *)
(* reader sleeps only if characters came after the line's end in the same  *)
(* burst.                                                                  *)
SleepersMissNoLine ==
    (tty_wait_list # {} /\ ended) => queue_empty(secondary_q)
=============================================================================
