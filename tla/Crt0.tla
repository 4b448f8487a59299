---------------------------------- MODULE Crt0 ----------------------------------
(***************************************************************************)
(* The startup code, crt0.S: from the reset vector over the clearing of    *)
(* bss to main, and back if main returns; and exc_wrapper, to which every  *)
(* other vector leads.  The handler it calls is weak: the one that this    *)
(* image links is an endless loop, and one that takes its place may let    *)
(* interrupts in while it runs, which come before it has returned or while *)
(* the wrapper restores what it has saved.                                 *)
(***************************************************************************)
EXTENDS Integers, Sequences, SequencesExt

CONSTANTS
    WordBytes,   \* 4
    BssSizes,    \* sizes of bss, in bytes: the linker does not align its end
    MaxBoots,    \* bound on the times _start is reached
    MaxSteps,    \* bound on the steps of main
    MaxTraps     \* bound on exceptions and interrupts

ASSUME SizesAssumption == WordBytes \in Nat \ {0} /\ BssSizes \subseteq Nat

VARIABLES
    pc,
    regs,        \* registers
    mie,         \* some interrupt is enabled in mie
    mstatus,     \* its bits MIE and MPIE
    mepc,
    mem,         \* memory at bss, by byte
    bss_end,
    frames,      \* what the wrapper has on the stack, oldest first
    handler,     \* which exception_handler is linked
    boots, steps, traps,
    interrupted  \* what was running at each trap that has not returned

boot_vars == <<pc, regs, mie, mstatus, mepc, mem, bss_end, frames, handler,
          boots, steps, traps, interrupted>>

CallerSaved == {"ra", "t0", "t1", "t2", "a0", "a1"}
Registers == CallerSaved \cup {"s0", "s1"}

(* The wrapper makes s0 its frame pointer; a handler preserves s1 itself.  *)
SavedByWrapper == CallerSaved \cup {"s0"}

Put(rs) == [r \in Registers |-> IF r \in DOMAIN rs THEN rs[r] ELSE regs[r]]

Vectors == 0..32
Vector(n) == IF n = 32 THEN "_start" ELSE "exc_wrapper"

PowerOn ==
    /\ pc = Vector(32)
    /\ regs = [r \in Registers |-> "unknown"]
    /\ mie = FALSE
    /\ mstatus = [MIE |-> FALSE, MPIE |-> FALSE]
    /\ mepc = "unknown"
    /\ bss_end \in BssSizes
    /\ mem = [b \in -1..(bss_end + 2 * WordBytes) |-> "loaded"]
    /\ frames = <<>>
    /\ handler \in {"default", "other"}
    /\ boots = 0 /\ steps = 0 /\ traps = 0
    /\ interrupted = <<>>

-------------------------------------------------------------------------------
(* From _start to main.  t1 is the byte after those that are cleared. *)

MoreToClear_WholeWords(t) == t + WordBytes <= bss_end
MoreToClear(t) == t <= bss_end

StartUp ==
    /\ pc = "_start"
    /\ boots < MaxBoots
    /\ boots' = boots + 1
    /\ frames' = <<>>
    /\ regs' = Put([t1 |-> 0, t2 |-> bss_end])
    /\ pc' = IF 0 >= bss_end THEN "bss_clear_end" ELSE "bss_clear_loop"
    /\ UNCHANGED <<mie, mstatus, mepc, mem, bss_end, handler, steps, traps,
                   interrupted>>

ClearWord ==
    /\ pc = "bss_clear_loop"
    /\ mem' = [b \in DOMAIN mem |->
                  IF b \in regs.t1..(regs.t1 + WordBytes - 1) THEN "zero" ELSE mem[b]]
    /\ regs' = Put([t1 |-> regs.t1 + WordBytes])
    /\ pc' = IF MoreToClear(regs'.t1) THEN pc ELSE "bss_clear_end"
    /\ UNCHANGED <<mie, mstatus, mepc, bss_end, frames, handler, boots, steps,
                   traps, interrupted>>

JumpToMain ==
    /\ pc = "bss_clear_end"
    /\ regs' = Put([a0 |-> 0, a1 |-> 0, ra |-> "_start"])
    /\ pc' = "main"
    /\ steps' = 0
    /\ UNCHANGED <<mie, mstatus, mepc, mem, bss_end, frames, handler, boots,
                   traps, interrupted>>

(* main computes, in registers and in bss, and leaves interrupts as they are. *)
MainStep ==
    /\ pc = "main"
    /\ steps < MaxSteps
    /\ steps' = steps + 1
    /\ regs' = [r \in Registers |-> IF r = "ra" THEN regs.ra ELSE steps']
    /\ mem' = [b \in DOMAIN mem |-> IF b \in 0..(bss_end - 1) THEN "used" ELSE mem[b]]
    /\ UNCHANGED <<pc, mie, mstatus, mepc, bss_end, frames, handler, boots,
                   traps, interrupted>>

MainReturns ==
    /\ pc = "main"
    /\ pc' = regs.ra
    /\ UNCHANGED <<regs, mie, mstatus, mepc, mem, bss_end, frames, handler,
                   boots, steps, traps, interrupted>>

-------------------------------------------------------------------------------
(* Traps.  An exception is that of an instruction of main; interrupts come *)
(* wherever they are enabled.                                              *)

Running == [pc |-> pc, regs |-> regs, mie |-> mie, MIE |-> mstatus.MIE]

Trap(vector) ==
    /\ traps < MaxTraps
    /\ traps' = traps + 1
    /\ interrupted' = Append(interrupted, Running)
    /\ mepc' = pc
    /\ mstatus' = [MIE |-> FALSE, MPIE |-> mstatus.MIE]
    /\ pc' = Vector(vector)
    /\ UNCHANGED <<regs, mie, mem, bss_end, frames, handler, boots, steps>>

Exception == pc = "main" /\ Trap(0)

Interrupt == mie /\ mstatus.MIE /\ \E n \in Vectors \ {0, 32} : Trap(n)

(* "save registers" and "save mepc, mie and mstatus": the csrs go through  *)
(* t0, t1 and a1, and mcause and mepc are arguments of the handler.        *)
Save ==
    /\ pc = "exc_wrapper"
    /\ frames' = Append(frames,
                     [regs |-> [r \in SavedByWrapper |-> regs[r]],
                      mie |-> mie, mstatus |-> mstatus, mepc |-> mepc])
    /\ regs' = Put([s0 |-> "frame", t0 |-> mie, t1 |-> mstatus, a1 |-> mepc,
                    a0 |-> "mcause", ra |-> "restore"])
    /\ pc' = "exception_handler"
    /\ UNCHANGED <<mie, mstatus, mepc, mem, bss_end, handler, boots, steps,
                   traps, interrupted>>

(* A handler uses what registers the calling convention gives it, and may  *)
(* enable interrupts, in mie and in mstatus, or disable them.              *)
HandlerStep ==
    /\ pc = "exception_handler"
    /\ handler = "other"
    /\ regs' = [r \in Registers |-> IF r \in CallerSaved THEN "clobbered" ELSE regs[r]]
    /\ mie' \in BOOLEAN
    /\ \E on \in BOOLEAN : mstatus' = [mstatus EXCEPT !.MIE = on]
    /\ UNCHANGED <<pc, mepc, mem, bss_end, frames, handler, boots, steps,
                   traps, interrupted>>

HandlerReturns ==
    /\ pc = "exception_handler"
    /\ handler = "other"
    /\ pc' = "load"
    /\ UNCHANGED <<regs, mie, mstatus, mepc, mem, bss_end, frames, handler,
                   boots, steps, traps, interrupted>>

(* The default: "j exception_handler". *)
HandlerLoops ==
    /\ pc = "exception_handler"
    /\ handler = "default"
    /\ UNCHANGED boot_vars

(* "restore mepc, mie and mstatus (restoring mstatus disables interrupts)":  *)
(* pc names the csr that is written next.                                  *)
RestoreOrder_MepcFirst == <<"mie", "mepc", "mstatus">>
RestoreOrder == <<"mie", "mstatus", "mepc">>

Load ==
    /\ pc = "load"
    /\ LET f == Last(frames)
       IN  regs' = Put([t0 |-> f.mie, t1 |-> f.mstatus, t2 |-> f.mepc])
    /\ pc' = RestoreOrder[1]
    /\ UNCHANGED <<mie, mstatus, mepc, mem, bss_end, frames, handler, boots,
                   steps, traps, interrupted>>

RestoreCsr(n) ==
    /\ pc = RestoreOrder[n]
    /\ mie' = IF pc = "mie" THEN regs.t0 ELSE mie
    /\ mstatus' = IF pc = "mstatus" THEN regs.t1 ELSE mstatus
    /\ mepc' = IF pc = "mepc" THEN regs.t2 ELSE mepc
    /\ pc' = IF n = 3 THEN "restore" ELSE RestoreOrder[n + 1]
    /\ UNCHANGED <<regs, mem, bss_end, frames, handler, boots, steps, traps,
                   interrupted>>

(* "restore registers" and mret *)
Mret ==
    /\ pc = "restore"
    /\ regs' = Put(Last(frames).regs)
    /\ frames' = Front(frames)
    /\ pc' = mepc
    /\ mstatus' = [MIE |-> mstatus.MPIE, MPIE |-> TRUE]
    /\ interrupted' = Front(interrupted)
    /\ UNCHANGED <<mie, mepc, mem, bss_end, handler, boots, steps, traps>>

-------------------------------------------------------------------------------
Instruction ==
    \/ StartUp \/ ClearWord \/ JumpToMain \/ MainStep \/ MainReturns
    \/ Exception \/ Interrupt
    \/ Save \/ HandlerStep \/ HandlerReturns \/ HandlerLoops
    \/ Load \/ Mret
    \/ \E n \in 1..3 : RestoreCsr(n)

BootSpec == PowerOn /\ [][Instruction]_boot_vars

-------------------------------------------------------------------------------
(* Every time main begins, all of bss is zero, whatever main did before it  *)
(* returned and wherever bss ends; and no byte was written but those of bss *)
(* and of the one word that begins at its end or holds its last bytes.      *)
BssCleared ==
    pc = "main" /\ steps = 0 =>
        /\ \A b \in 0..(bss_end - 1) : mem[b] = "zero"
        /\ \A b \in DOMAIN mem :
              b < 0 \/ b >= bss_end + WordBytes => mem[b] = "loaded"

(* What is interrupted goes on as if nothing had happened: at its own       *)
(* instruction, with its registers and its interrupts, however deep the     *)
(* traps are nested and wherever in the handlers and wrappers they came.    *)
ResumesAsInterrupted ==
    [][Len(interrupted') < Len(interrupted) =>
           [pc |-> pc', regs |-> regs', mie |-> mie', MIE |-> mstatus'.MIE]
               = Last(interrupted)]_boot_vars
===============================================================================
