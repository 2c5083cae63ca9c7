---------------------------- MODULE BoardExpander ----------------------------
(***************************************************************************)
(* board.c: the write-only output register of the CH422G expander, which   *)
(* the backlight, the touch controller and the SD card's select line       *)
(* share, its shadow, and the mutex around read-modify-write.  An output   *)
(* value is the set of the bits that are high.                             *)
(***************************************************************************)
EXTENDS Naturals

CONSTANT MaxFaults  \* bound: operations that fail

ASSUME BoardExpanderAssumption == MaxFaults \in Nat

VARIABLES
  boot,         \* how far app_main has got
  register,     \* the CH422G's outputs
  shadow,       \* ch422g_output_shadow
  outputMutex,  \* ch422g_output_mutex: the caller that holds it, or "free"
  update,       \* the call of ch422g_output_update of each caller
  faults        \* number of failures so far

boardVars == <<boot, register, shadow, outputMutex, update, faults>>

\* The supervisor (before it, the main task) switches the backlight, the
\* storage task selects the SD card.
Caller == {"supervisor", "storage"}

Bit == {"TP_RESET", "LCD_BACKLIGHT", "LCD_RESET", "SD_CHIP_SELECT", "USB_SELECT"}

TouchResetAssert == {"LCD_BACKLIGHT", "LCD_RESET", "USB_SELECT"}
TouchResetRelease == TouchResetAssert \cup {"TP_RESET"}
SteadyOff == {"TP_RESET", "LCD_RESET", "SD_CHIP_SELECT"}  \* CH422G_BACKLIGHT_OFF

\* The bits a caller sets or clears; SD_CS is active low.
OwnBit(c) == IF c = "supervisor" THEN {"LCD_BACKLIGHT"} ELSE {"SD_CHIP_SELECT"}

NoCall == [step |-> "idle", set |-> {}, clear |-> {}, next |-> {}, ok |-> FALSE]

BoardTypeOK ==
  /\ boot \in {"assert", "release", "steady", "dark", "up"}
  /\ register \in SUBSET Bit
  /\ shadow \in SUBSET Bit
  /\ outputMutex \in Caller \cup {"free"}
  /\ update \in [Caller -> [step : {"idle", "mode", "lock", "write"}, set : SUBSET Bit,
                            clear : SUBSET Bit, next : SUBSET Bit, ok : BOOLEAN]]
  /\ faults \in 0 .. MaxFaults

\* Power-up, or a restart of the chip alone, which leaves the expander as it was.
BoardInit ==
  /\ boot = "assert"
  /\ register \in {{}, SteadyOff, SteadyOff \cup {"LCD_BACKLIGHT"}}
  /\ shadow = SteadyOff
  /\ outputMutex = "free"
  /\ update = [c \in Caller |-> NoCall]
  /\ faults = 0

Fault == faults < MaxFaults /\ faults' = faults + 1

------------------------------------------------------------------------------
(* ch422g_output_update, in its three steps                                 *)

Idle(c) == update[c].step = "idle"

\* desk_board_backlight_set, desk_board_sd_select
Call(c, high) ==
  /\ Idle(c)
  /\ update' = [update EXCEPT ![c] =
       [step |-> "mode", set |-> IF high THEN OwnBit(c) ELSE {},
        clear |-> IF high THEN {} ELSE OwnBit(c), next |-> {}, ok |-> FALSE]]
BacklightSet(enabled) == Call("supervisor", enabled)
SdSelect(selected) == Call("storage", ~selected)

Returns(c, ok) ==
  update' = [update EXCEPT ![c].step = "idle", ![c].next = {}, ![c].ok = ok]

WritesMode(c) ==
  /\ update[c].step = "mode"
  /\ \/ update' = [update EXCEPT ![c].step = "lock"] /\ UNCHANGED faults
     \/ Returns(c, FALSE) /\ Fault
  /\ UNCHANGED <<boot, register, shadow, outputMutex>>

\* Mutant: the mutex is not waited for.
MutexIgnored == TRUE
MutexFree == outputMutex = "free"

NextOutput(c) == (shadow \cup update[c].set) \ update[c].clear

TakesOutputMutex(c) ==
  /\ update[c].step = "lock"
  /\ \/ /\ MutexFree
        /\ outputMutex' = c
        /\ update' = [update EXCEPT ![c].step = "write", ![c].next = NextOutput(c)]
        /\ UNCHANGED faults
     \/ /\ outputMutex # "free"
        /\ Returns(c, FALSE)
        /\ Fault
        /\ UNCHANGED outputMutex
  /\ UNCHANGED <<boot, register, shadow>>

\* ch422g_output_write and the giving back of the mutex.  A write that fails
\* may have reached the expander, of which the acknowledgement was lost.
WritesOutput(c) ==
  /\ update[c].step = "write"
  /\ outputMutex' = "free"
  /\ \/ /\ register' = update[c].next
        /\ shadow' = update[c].next
        /\ Returns(c, TRUE)
        /\ UNCHANGED faults
     \/ /\ register' \in {register, update[c].next}
        /\ Returns(c, FALSE)
        /\ Fault
        /\ UNCHANGED shadow
  /\ UNCHANGED boot

UpdatesOutput(c) == WritesMode(c) \/ TakesOutputMutex(c) \/ WritesOutput(c)

------------------------------------------------------------------------------
(* app_main up to the start of the tasks: desk_board_display_init writes    *)
(* without the mutex, and a failure aborts into a restart.                  *)

BootOutput ==
  [assert |-> TouchResetAssert, release |-> TouchResetRelease, steady |-> SteadyOff]
BootStep == [assert |-> "release", release |-> "steady", steady |-> "dark"]

BootWrites ==
  /\ boot \in DOMAIN BootStep
  /\ register' = BootOutput[boot]
  /\ shadow' = BootOutput[boot]
  /\ boot' = BootStep[boot]
  /\ IF boot = "steady" THEN BacklightSet(FALSE) ELSE UNCHANGED update
  /\ UNCHANGED <<outputMutex, faults>>

BootWriteFails ==
  /\ boot \in DOMAIN BootStep
  /\ Fault
  /\ register' \in {register, BootOutput[boot]}
  /\ shadow' = SteadyOff
  /\ boot' = "assert"
  /\ UNCHANGED <<outputMutex, update>>

BootDark ==
  /\ boot = "dark"
  /\ Idle("supervisor")
  /\ IF update["supervisor"].ok
     THEN boot' = "up" /\ UNCHANGED <<shadow, update>>
     ELSE boot' = "assert" /\ shadow' = SteadyOff /\ update' = [c \in Caller |-> NoCall]
  /\ UNCHANGED <<register, outputMutex, faults>>

Boots == BootWrites \/ BootWriteFails \/ BootDark

------------------------------------------------------------------------------
\* Whatever the other caller does to its own bit meanwhile, and whichever of
\* its writes fail: what a caller was last told to have done is what the
\* expander puts out, and the panel and the touch controller are not in reset.
OutputsAsRequested ==
  boot = "up" =>
    /\ {"TP_RESET", "LCD_RESET"} \subseteq register
    /\ \A c \in Caller : Idle(c) /\ update[c].ok =>
         update[c].set \subseteq register /\ update[c].clear \cap register = {}
==============================================================================
