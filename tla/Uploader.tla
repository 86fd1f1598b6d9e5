------------------------------ MODULE Uploader ------------------------------
(***************************************************************************)
(* The uploader (uploader/uploadergadgetwidget.cpp) with the connection    *)
(* manager and the telemetry manager: it halts the board with three        *)
(* commands in FirmwareIAPObj, gives up telemetry and the polling, and     *)
(* works on the board through a DFU object until it boots it again.        *)
(*                                                                         *)
(* Its waits are event loops inside slots: while one runs every other slot *)
(* does too, those of the buttons that are enabled among them, and the     *)
(* loop entered last has to end first.  The transactions on FirmwareIAPObj *)
(* are those of RequestBroker, one at a time.  The guided update           *)
(* (autoUpdate) and the device pages are not modelled.                     *)
(***************************************************************************)
EXTENDS ConnectionManager, Naturals, SequencesExt

CONSTANTS MaxFrames,        \* bound on the waits inside each other
          MaxCompletions,   \* bound on the completions posted
          MaxListening,     \* bound on the connections to FirmwareIAPObj
          MaxNotices        \* bound on the notices of the manager not yet taken

VARIABLES step,             \* m_currentIAPStep
          frames,           \* the waits, the one entered last at the end
          dfu,              \* m_dfu is set
          resetOnly,        \* m_resetOnly
          listening,        \* how often goToBootloader is connected to FirmwareIAPObj
          transaction,      \* on FirmwareIAPObj: "own" with the command, "other", "none"
          completions,      \* ends of transactions posted to goToBootloader
          enabled,          \* the buttons that are
          lost,             \* disconnected() posted to onAutopilotDisconnect
          found             \* connected() posted, with the timer of populate

link      == <<managerVars, connection>>
operation == <<step, frames, dfu, resetOnly>>
iap       == <<listening, transaction, completions>>
gui       == <<enabled, lost, found>>
upload    == <<operation, iap, gui>>
vars      == <<link, upload>>

Commands == {"STEP_1", "STEP_2", "RESET"}

\* The waits, with polling suspended, of an operation that uses the DFU object
\* or is about to.
DfuWaits == {"halted", "searching", "finding", "booting", "rescuing"}

Init == /\ ConnectionInit
        /\ step = "READY" /\ frames = <<>> /\ dfu = FALSE /\ resetOnly = FALSE
        /\ listening = 0 /\ transaction = "none" /\ completions = <<>>
        /\ enabled = {"rescue"} /\ lost = 0 /\ found = 0

Waits(frame) == frames # <<>> /\ Last(frames) = frame
Enter(under, frame) == Len(under) < MaxFrames /\ frames' = Append(under, frame)
Become(frame) == frames' = [frames EXCEPT ![Len(frames)] = frame]

-----------------------------------------------------------------------------
(* Transactions on FirmwareIAPObj.  An update is turned away without a     *)
(* connection and dropped while a transaction is in progress; with no      *)
(* stack nobody takes it.  Every connection hears of the end; left are the *)
(* completions not yet taken.                                              *)
Completion(own, ok) == [own |-> own, ok |-> ok]

Posted(left, listeners, c) == left \o [i \in 1 .. listeners |-> c]

Update(left, listeners) ==
  /\ Len(left) + listeners <= MaxCompletions
  /\ transaction' = IF transaction = "own" THEN "other"
                    ELSE IF stack.connected /\ transaction = "none" THEN "own" ELSE transaction
  /\ completions' = IF Running /\ ~stack.connected
                    THEN Posted(left, listeners, Completion(TRUE, FALSE)) ELSE left

\* Somebody else, the retrieval of the monitor among them, asks for the object.
RequestIap == /\ Running /\ transaction = "none"
              /\ transaction' = "other"
              /\ UNCHANGED <<link, operation, listening, completions, gui>>

\* The slot hears of the end of any transaction on the object.
Conclude(ok) ==
  /\ Running /\ transaction # "none" /\ Len(completions) + listening <= MaxCompletions
  /\ transaction' = "none"
  /\ completions' = Posted(completions, listening, Completion(transaction = "own", ok))
  /\ UNCHANGED <<link, operation, listening, gui>>

-----------------------------------------------------------------------------
(* goToBootloader: called by the user, with success FALSE, and for the end *)
(* of a transaction.                                                       *)
SendFirst(left) == /\ step = "READY" /\ listening < MaxListening
                   /\ step' = "STEP_1" /\ listening' = listening + 1
                   /\ enabled' = enabled \ {"halt"}
                   /\ Update(left, listening + 1)
                   /\ UNCHANGED <<link, frames>>

Oops(left) == /\ step \in Commands
              /\ step' = "READY" /\ listening' = 0 /\ completions' = left
              /\ enabled' = enabled \cup {"halt"}
              /\ UNCHANGED <<link, frames, transaction>>

\* The next command is sent after a wait.
Acknowledged(left) == /\ step \in {"STEP_1", "STEP_2"}
                      /\ Enter(frames, step) /\ completions' = left
                      /\ UNCHANGED <<link, step, listening, transaction, enabled>>

\* All three are: telemetry is disconnected and, after a wait, polling suspended.
BoardReset(left) == /\ step = "RESET"
                    /\ step' = "READY" /\ Enter(frames, "halting")
                    /\ completions' = left
                    /\ Becomes(DisconnectDevice(Current))
                    /\ UNCHANGED <<stack, plugged, devList, polling, button,
                                   listening, transaction, enabled>>

NothingToDo(left) == /\ step = "BOOTLOADER"
                     /\ completions' = left
                     /\ UNCHANGED <<link, step, frames, listening, transaction, enabled>>

\* Of the calls that end before they wait, the ones a click comes to.
GoToBootloader == SendFirst(completions) \/ Oops(completions) \/ NothingToDo(completions)

TransactionCompleted ==
  /\ completions # <<>>
  /\ LET c    == Head(completions)
         left == Tail(completions)
     IN  \/ SendFirst(left)
         \/ ~c.ok /\ Oops(left)
         \/ /\ c.ok /\ (Acknowledged(left) \/ BoardReset(left))
         \/ NothingToDo(left)
  /\ UNCHANGED <<dfu, resetOnly, lost, found>>

\* The wait before a command is over.
SendNext == /\ Waits("STEP_1") \/ Waits("STEP_2")
            /\ frames' = Front(frames)
            /\ step' = IF Last(frames) = "STEP_1" THEN "STEP_2" ELSE "RESET"
            /\ Update(completions, listening)
            /\ UNCHANGED <<link, dfu, resetOnly, listening, gui>>

-----------------------------------------------------------------------------
(* Booting: an operation that ends leaves the waits under which it began.  *)
\* commonSystemBoot, from the answer of the board on: left open if it fails, polling.
BootEnds(under, left, ok) ==
  /\ frames' = under /\ dfu' = FALSE
  /\ step' = IF ok THEN "READY" ELSE step
  /\ enabled' = left \cup (IF ok THEN {"rescue"} ELSE {"boot", "rescue"})

\* A DFU object that is there answers at once, a new one has to be waited for.
\* Variant with a plausible mistake: polling goes on while it is.
SystemBootPolling(under) ==
  \/ /\ dfu
     /\ \E ok \in BOOLEAN : /\ Becomes(DisconnectDevice(Current)) /\ SetPolling(ok)
                            /\ BootEnds(under, enabled \ {"boot"}, ok)
  \/ /\ ~dfu /\ Enter(under, "booting")
     /\ Becomes(DisconnectDevice(Current)) /\ SetPolling(polling)
     /\ enabled' = enabled \ {"boot"}
     /\ UNCHANGED <<step, dfu>>

SystemBoot(under) ==
  \/ /\ dfu
     /\ \E ok \in BOOLEAN : /\ Becomes(DisconnectDevice(Current)) /\ SetPolling(ok)
                            /\ BootEnds(under, enabled \ {"boot"}, ok)
  \/ /\ ~dfu /\ Enter(under, "booting")
     /\ SuspendPolling(DisconnectDevice(Current))
     /\ enabled' = enabled \ {"boot"}
     /\ UNCHANGED <<step, dfu>>

-----------------------------------------------------------------------------
(* After the reset.  A new DFU object searches for the boot loader, up to  *)
(* 16 s, and is set when that is over.                                     *)
StopPolling == /\ Waits("halting") /\ Become("halted")
               /\ SuspendPolling(Current)
               /\ UNCHANGED <<step, dfu, resetOnly, iap, gui>>

\* The board enters DFU mode, "refuses", or there is none ("absent").
EnterDfu(outcome, at) ==
  \/ /\ outcome = "board" /\ Become("finding")
     /\ dfu' = TRUE /\ step' = at
     /\ UNCHANGED <<link, enabled>>
  \/ /\ outcome \in {"refuses", "absent"} /\ frames' = Front(frames)
     /\ dfu' = FALSE /\ ResumePolling /\ step' = "READY"
     /\ enabled' = enabled \cup (IF outcome = "absent" THEN {"halt"} ELSE {})

Search == /\ Waits("halted")
          /\ listening' = 0
          /\ \/ dfu /\ \E outcome \in {"board", "refuses"} : EnterDfu(outcome, "BOOTLOADER")
             \/ /\ ~dfu /\ Become("searching") /\ step' = "BOOTLOADER"
                /\ UNCHANGED <<link, dfu, enabled>>
          /\ UNCHANGED <<resetOnly, transaction, completions, lost, found>>

Searched(outcome) == /\ Waits("searching") /\ EnterDfu(outcome, step)
                     /\ UNCHANGED <<resetOnly, iap, lost, found>>

\* findDevices; the model ends where the DFU object was deleted meanwhile and the
\* code uses it.  The devices are shown, with a round of the event loop, unless
\* there are "several": more than there can be.
FindDevices(devices) ==
  /\ Waits("finding") /\ dfu
  /\ \/ devices = "some" /\ Become("showing") /\ UNCHANGED <<link, dfu>>
     \/ /\ devices = "several" /\ frames' = Front(frames)
        /\ dfu' = FALSE /\ ResumePolling
  /\ UNCHANGED <<step, resetOnly, iap, gui>>

\* The end of a halt, or of a reset, which boots the board.
Halted == /\ Waits("showing")
          /\ \/ /\ resetOnly /\ resetOnly' = FALSE
                /\ SystemBoot(Front(frames))
             \/ /\ ~resetOnly /\ frames' = Front(frames)
                /\ enabled' = enabled \cup {"boot"}
                /\ UNCHANGED <<link, step, dfu, resetOnly>>
          /\ UNCHANGED <<iap, lost, found>>

-----------------------------------------------------------------------------
(* The buttons.                                                            *)
SystemHalt == /\ "halt" \in enabled /\ GoToBootloader
              /\ UNCHANGED <<dfu, resetOnly, lost, found>>

SystemReset == /\ "reset" \in enabled /\ GoToBootloader
               /\ resetOnly' = TRUE /\ dfu' = FALSE
               /\ UNCHANGED <<lost, found>>

Boot == /\ "boot" \in enabled /\ SystemBoot(frames)
        /\ UNCHANGED <<resetOnly, iap, lost, found>>

Booted(ok) == /\ Waits("booting")
              /\ BootEnds(Front(frames), enabled, ok)
              /\ IF ok THEN ResumePolling ELSE UNCHANGED link
              /\ UNCHANGED <<resetOnly, iap, lost, found>>

\* systemRescue, with the dialogs that ask for the board to be plugged in.
Rescue == /\ "rescue" \in enabled /\ Enter(frames, "rescuing")
          /\ SuspendPolling(DisconnectDevice(Current))
          /\ dfu' = FALSE
          /\ enabled' = enabled \ {"rescue"}
          /\ UNCHANGED <<step, resetOnly, iap, lost, found>>

Rescued(how) ==
  /\ Waits("rescuing") /\ frames' = Front(frames)
  /\ \/ /\ how = "cancelled" /\ enabled' = enabled \cup {"rescue"}
        /\ UNCHANGED <<link, step, dfu>>
     \/ /\ how = "failed" /\ enabled' = enabled \cup {"rescue"}
        /\ dfu' = FALSE /\ ResumePolling
        /\ UNCHANGED step
     \/ /\ how = "found" /\ enabled' = {"boot"}
        /\ dfu' = TRUE /\ step' = "BOOTLOADER"
        /\ UNCHANGED link
  /\ UNCHANGED <<resetOnly, iap, lost, found>>

\* onAutopilotDisconnect, and onAutopilotConnect with populate.
AutopilotDisconnected ==
  /\ lost > 0 /\ lost' = lost - 1
  /\ enabled' = {"boot"} \cup (IF step = "BOOTLOADER" THEN {} ELSE {"rescue"})
  /\ UNCHANGED <<link, operation, iap, found>>

Populate == /\ found > 0 /\ found' = found - 1
            /\ enabled' = {"halt", "reset"}
            /\ UNCHANGED <<link, operation, iap, lost>>

-----------------------------------------------------------------------------
(* The steps of the other parts.  A stack that is deleted closes its       *)
(* transactions and tells nobody of them.                                  *)
\* Variant with a plausible mistake: the transactions stay open.
StackStoppedOpen == /\ OnStop /\ lost + found < MaxNotices /\ lost' = lost + 1
                    /\ UNCHANGED <<connection, operation, iap, enabled, found>>

StackStopped == /\ OnStop /\ lost + found < MaxNotices /\ lost' = lost + 1
                /\ transaction' = "none"
                /\ UNCHANGED <<connection, operation, listening, completions, enabled, found>>

Telemetry ==
  \/ StackStopped
  \/ /\ OnDisconnect /\ lost + found < MaxNotices /\ lost' = lost + 1
     /\ UNCHANGED <<connection, operation, iap, enabled, found>>
  \/ /\ OnConnect /\ lost + found < MaxNotices /\ found' = found + 1
     /\ UNCHANGED <<connection, operation, iap, enabled, lost>>
  \/ (OnStart \/ OnDelete) /\ UNCHANGED <<connection, upload>>

\* A device that is opened takes two buttons away (onPhysicalHWConnect).
Devices == /\ \/ \E kind \in Kinds, auto \in BOOLEAN : DevChanged(kind, auto)
              \/ OnConnectClicked
              \/ \E p \in Port : Plug(p)
           /\ enabled' = IF io' \in {io, NoDevice} THEN enabled ELSE enabled \ {"boot", "rescue"}
           /\ UNCHANGED <<operation, iap, lost, found>>

Buttons == \/ SystemHalt \/ SystemReset \/ Boot \/ Rescue
           \/ AutopilotDisconnected \/ Populate

Waiting == \/ SendNext \/ StopPolling \/ Search \/ Halted
           \/ \E outcome \in {"board", "refuses", "absent"} : Searched(outcome)
           \/ \E devices \in {"some", "several"} : FindDevices(devices)
           \/ \E ok \in BOOLEAN : Booted(ok)
           \/ \E how \in {"cancelled", "failed", "found"} : Rescued(how)

Next == \/ Telemetry \/ Devices \/ Buttons \/ Waiting
        \/ TransactionCompleted \/ RequestIap \/ \E ok \in BOOLEAN : Conclude(ok)

Spec == Init /\ [][Next]_vars

-----------------------------------------------------------------------------
\* The type of every variable.
TypeOK ==
  /\ ConnectionTypeOK
  /\ step \in Commands \cup {"READY", "BOOTLOADER"}
  /\ frames \in Seq({"STEP_1", "STEP_2", "halting", "showing"} \cup DfuWaits)
  /\ dfu \in BOOLEAN /\ resetOnly \in BOOLEAN
  /\ listening \in Nat
  /\ transaction \in {"none", "own", "other"} /\ (transaction # "none" => Running)
  /\ completions \in Seq([own : BOOLEAN, ok : BOOLEAN])
  /\ enabled \subseteq {"halt", "reset", "boot", "rescue"}
  /\ lost \in Nat /\ found \in Nat

\* Connections look for devices while there is a DFU object or an operation waits
\* for one, or the object is gone with which goToBootloader is to find the devices.
Disturbed == \/ polling /\ (dfu \/ ToSet(frames) \cap DfuWaits # {})
             \/ "finding" \in ToSet(frames) /\ ~dfu

\* Whatever is clicked, plugged in or announced in its waits, a DFU operation is
\* disturbed ("otherwise it will mess up DFU", goToBootloader and systemRescue) by
\* one thing only: another operation that began inside such a wait and ended
\* there, or deleted the DFU object.
OnlyInnerEndsDisturb ==
  [][~Disturbed /\ Disturbed' =>
       \/ frames # <<>> /\ Last(frames) \in DfuWaits /\ frames' = Front(frames)
       \/ dfu /\ ~dfu']_vars

\* The board is reset, and telemetry given up, only for the end of a transaction
\* with the command ("setup callback for MoBo acknowledge", goToBootloader).
BoardIsReset ==
  [][Len(frames') > Len(frames) /\ Last(frames') = "halting" => Head(completions).own]_vars
=============================================================================
