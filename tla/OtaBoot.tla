------------------------------ MODULE OtaBoot ------------------------------
(***************************************************************************)
(* What the device keeps in flash across resets and how it is changed:     *)
(* the two firmware partitions, the boot parameters that say which of them *)
(* to start (code/atcmd/at_test/ota_test.c) and the run mode word          *)
(* (code/utils/utils.c).  Power may be cut between any two flash commands. *)
(*                                                                         *)
(* Both words live in sectors of their own, and every change of either is  *)
(* flash_write_core: the whole sector is erased, then written back.  The   *)
(* erased sector reads as all ones, which the code takes for "no upgrade,  *)
(* no known partition" in one sector and for manufacturing mode in the     *)
(* other.                                                                  *)
(*                                                                         *)
(* The bootloader is a binary.  From what ota_init_boot_params expects of  *)
(* it: it starts the partition named for an upgrade or falls back to the   *)
(* original one, and tells which in boot_addr; without an upgrade it       *)
(* starts the original one, and FLASH_OTA1 when that is not known, as      *)
(* ota_init_flash_params takes it to have done.                            *)
(***************************************************************************)
EXTENDS Naturals

CONSTANTS OTA1, OTA2,  \* the partitions FLASH_OTA1 and FLASH_OTA2
          NONE         \* 0xFFFFFFFF, the address an erased word holds

ASSUME AddressesAssumption == OTA1 # OTA2 /\ NONE \notin {OTA1, OTA2}

Parts == {OTA1, OTA2}
Other(p) == IF p = OTA1 THEN OTA2 ELSE OTA1

(* ota_boot_param_t; sig is whether the signature is the dual-image one.   *)
BootParam == [upg_addr  : Parts \union {NONE},
              orig_addr : Parts \union {NONE},
              boot_addr : Parts \union {NONE},
              sig       : BOOLEAN]
BlankParam == [upg_addr |-> NONE, orig_addr |-> NONE, boot_addr |-> NONE,
               sig |-> FALSE]

RunModes == {"mp", "normal", "test"}
ModeWords == {"ones", "normal", "test", "other"}

VARIABLES
  param,    \* the parameter sector, FLASH_PARAMETER_1
  mode,     \* the run mode sector, FLASH_MODE_AREA
  image,    \* what each partition holds
  running,  \* the partition the processor executes from
  target,   \* g_st_ota_flash.addr
  phase,    \* what the device is doing
  job,      \* the sector write under way
  asked,    \* history: the run mode last asked for
  excused,  \* history: that request met a power cut or got no buffer
  unsaved   \* history: ota_init_boot_params once got no buffer

vars == <<param, mode, image, running, target, phase, job, asked, excused,
          unsaved>>

NoJob == [area |-> "none"]
Phases == {"boot", "init", "idle", "fetch", "download", "check", "record",
           "erase", "write"}
CallerPhases == Phases \ {"erase", "write"}  \* where a sector write returns to

TypeOK ==
  /\ param \in BootParam
  /\ mode \in ModeWords
  /\ image \in [Parts -> {"whole", "broken"}]
  /\ running \in Parts
  /\ target \in Parts \union {NONE}
  /\ phase \in Phases
  /\ \/ job = NoJob /\ phase \notin {"erase", "write"}
     \/ /\ job \in
             [area : {"param"}, value : BootParam, then : CallerPhases]
               \union [area : {"mode"}, value : ModeWords, then : CallerPhases]
        /\ phase \in {"erase", "write"}
  /\ asked \in RunModes
  /\ excused \in BOOLEAN /\ unsaved \in BOOLEAN

(* get_s907_run_mode: the mask of manufacturing mode is the erased word,   *)
(* and a word that is no mask is normal mode.                              *)
ModeOf(word) == CASE word = "ones" -> "mp"
                  [] word = "test" -> "test"
                  [] word \in {"normal", "other"} -> "normal"

(* The word set_s907_run_mode stores.                                      *)
WordOf_NoTest(m) == IF m = "mp" THEN "ones" ELSE "normal"  \* mutated form
WordOf(m) == IF m = "mp" THEN "ones" ELSE m

(* A device from the factory, whose parameter sector is blank or names the *)
(* first partition, or one that has been updated before.                   *)
Init ==
  /\ \E p \in Parts :
        /\ running = p
        /\ param \in {[BlankParam EXCEPT !.orig_addr = p, !.boot_addr = b] :
                        b \in {NONE, p}}
                     \union (IF p = OTA1 THEN {BlankParam} ELSE {})
        /\ image \in {[q \in Parts |-> IF q = p THEN "whole" ELSE c] :
                        c \in {"whole", "broken"}}
  /\ mode \in ModeWords
  /\ target = NONE
  /\ phase = "idle"
  /\ job = NoJob
  /\ asked = ModeOf(mode)
  /\ excused = FALSE /\ unsaved = FALSE

-----------------------------------------------------------------------------
(* flash_write_core on one sector: read and merged in memory, then erased, *)
(* then written.  The caller goes on at phase next.                        *)

Flash(area, value, next) ==
  /\ phase' = "erase"
  /\ job' = [area |-> area, value |-> value, then |-> next]

EraseSector ==
  /\ phase = "erase"
  /\ phase' = "write"
  /\ IF job.area = "param"
       THEN param' = BlankParam /\ UNCHANGED mode
       ELSE mode' = "ones" /\ UNCHANGED param
  /\ UNCHANGED <<image, running, target, job, asked, excused, unsaved>>

WriteSector ==
  /\ phase = "write"
  /\ phase' = job.then
  /\ job' = NoJob
  /\ IF job.area = "param"
       THEN param' = job.value /\ UNCHANGED mode
       ELSE mode' = job.value /\ UNCHANGED param
  /\ UNCHANGED <<image, running, target, asked, excused, unsaved>>

-----------------------------------------------------------------------------
(* The bootloader (a binary) and the first thing the firmware does.        *)

Pending(p) == p.upg_addr # NONE /\ p.sig
Original(p) == IF p.orig_addr = NONE THEN OTA1 ELSE p.orig_addr
BootChoices(p) == {Original(p)} \union (IF Pending(p) THEN {p.upg_addr} ELSE {})

Bootloader ==
  /\ phase = "boot"
  /\ \E p \in BootChoices(param) :
        /\ running' = p
        /\ IF Pending(param)
             THEN Flash("param", [param EXCEPT !.boot_addr = p], "init")
             ELSE phase' = "init" /\ UNCHANGED job
  /\ UNCHANGED <<param, mode, image, target, asked, excused, unsaved>>

ota_first_boot_after_update == Pending(param)

(* The parameters ota_init_boot_params stores after an upgrade.            *)
Settled(p) == [p EXCEPT !.upg_addr = NONE,
                        !.orig_addr = IF p.boot_addr # p.upg_addr
                                        THEN p.orig_addr ELSE p.boot_addr]

(* ota_init_boot_params.  A write that finds no buffer is only logged.     *)
ota_init_boot_params ==
  /\ phase = "init"
  /\ \/ /\ ~ota_first_boot_after_update
        /\ phase' = "idle"
        /\ UNCHANGED <<job, unsaved>>
     \/ /\ ota_first_boot_after_update
        /\ Flash("param", Settled(param), "idle")
        /\ UNCHANGED unsaved
     \/ /\ ota_first_boot_after_update
        /\ phase' = "idle" /\ unsaved' = TRUE
        /\ UNCHANGED job
  /\ UNCHANGED <<param, mode, image, running, target, asked, excused>>

-----------------------------------------------------------------------------
(* The update, run by the AT task for AT+OTA="start".                      *)

(* The partition an update is written to, from the one the parameters name *)
(* as the original.                                                        *)
Spare_Single(p) == OTA2  \* mutated form: as without dual images
Spare(p) == IF p.orig_addr = OTA2 THEN OTA1 ELSE OTA2

(* ota_init_flash_params.  Parameters without an original partition are    *)
(* written anew; whether that write got a buffer is not looked at.         *)
ota_init_flash_params ==
  /\ phase = "idle"
  /\ target' = Spare(param)
  /\ \/ /\ param.orig_addr = NONE
        /\ Flash("param", [BlankParam EXCEPT !.orig_addr = OTA1], "fetch")
     \/ phase' = "fetch" /\ UNCHANGED job
  /\ UNCHANGED <<param, mode, image, running, asked, excused, unsaved>>

(* No memory for the transfer, no connection, or the request not sent.     *)
RequestFails ==
  /\ phase = "fetch"
  /\ phase' = "idle"
  /\ UNCHANGED <<param, mode, image, running, target, job, asked, excused,
                 unsaved>>

(* ota_start_write_flash: the first sector erased breaks the old image.    *)
ota_start_write_flash ==
  /\ phase = "fetch"
  /\ phase' = "download"
  /\ image' = [image EXCEPT ![target] = "broken"]
  /\ UNCHANGED <<param, mode, running, target, job, asked, excused, unsaved>>

(* The rest of ota_http_download_new_fw: it fails, or all bytes came and   *)
(* the partition holds the image or something else.                        *)
ota_http_download_new_fw ==
  /\ phase = "download"
  /\ \/ phase' = "idle" /\ UNCHANGED image
     \/ /\ phase' = "check"
        /\ \E what \in {"whole", "broken"} :
              image' = [image EXCEPT ![target] = what]
  /\ UNCHANGED <<param, mode, running, target, job, asked, excused, unsaved>>

(* ota_check_image; it also fails when it gets no buffer.                  *)
ota_check_image_Trusts ==  \* mutated form: the verdict is not looked at
  /\ phase = "check"
  /\ phase' = "record"
  /\ UNCHANGED <<param, mode, image, running, target, job, asked, excused,
                 unsaved>>

ota_check_image ==
  /\ phase = "check"
  /\ \/ phase' = "record" /\ image[target] = "whole"
     \/ phase' = "idle"
  /\ UNCHANGED <<param, mode, image, running, target, job, asked, excused,
                 unsaved>>

(* The parameters that ask the bootloader for the new image.               *)
Upgrade(p) == [p EXCEPT !.upg_addr = target, !.sig = TRUE]

(* ota_write_boot_params, and the reset of ota_start when what it reads    *)
(* back is what it wrote.                                                  *)
ota_write_boot_params ==
  /\ phase = "record"
  /\ \/ Flash("param", Upgrade(param), "boot")
     \/ /\ param # Upgrade(param)
        /\ phase' = "idle" /\ UNCHANGED job
     \/ /\ param = Upgrade(param)
        /\ phase' = "boot" /\ UNCHANGED job
  /\ UNCHANGED <<param, mode, image, running, target, asked, excused, unsaved>>

-----------------------------------------------------------------------------
(* The run mode.                                                           *)

(* mode_switch_hdl with set_s907_run_mode: nothing for the mode it is in;  *)
(* otherwise the word is written, if there is a buffer, and the device     *)
(* reset in either case.                                                   *)
mode_switch_hdl(m) ==
  /\ phase = "idle"
  /\ ModeOf(mode) # m
  /\ asked' = m
  /\ \/ Flash("mode", WordOf(m), "boot") /\ excused' = FALSE
     \/ phase' = "boot" /\ excused' = TRUE /\ UNCHANGED job
  /\ UNCHANGED <<param, mode, image, running, target, unsaved>>

(* The power is cut, or something else resets the device.                  *)
PowerCut ==
  /\ phase' = "boot"
  /\ target' = NONE
  /\ job' = NoJob
  /\ excused' = (excused \/ (job # NoJob /\ job.area = "mode"))
  /\ UNCHANGED <<param, mode, image, running, asked, unsaved>>

Next ==
  \/ Bootloader
  \/ ota_init_boot_params
  \/ ota_init_flash_params
  \/ RequestFails
  \/ ota_start_write_flash
  \/ ota_http_download_new_fw
  \/ ota_check_image
  \/ ota_write_boot_params
  \/ \E m \in RunModes : mode_switch_hdl(m)
  \/ EraseSector
  \/ WriteSector
  \/ PowerCut

Spec == Init /\ [][Next]_vars

-----------------------------------------------------------------------------
(* Whatever instant the power is cut at, every partition the bootloader    *)
(* may then start holds a whole image: while the parameter sector is blank *)
(* between an erase and a write (utils.c:98), while the spare partition is *)
(* half written, and before the firmware has settled an upgrade.  Only a   *)
(* boot whose parameters could not be stored (ota_test.c:768) is excepted. *)
EveryBootChoiceIsWhole ==
  ~unsaved => \A p \in BootChoices(param) : image[p] = "whole"

(* An update never erases the partition the processor executes from        *)
(* (ota_test.c:140), with the same exception: the parameters then still    *)
(* name the other partition as the original one, and an update aims at the *)
(* running one.                                                            *)
TargetIsSpare ==
  (phase \in {"fetch", "download", "check", "record"} /\ ~unsaved) =>
    target # running /\ image[running] = "whole"

(* When the device is up, the parameters name the partition it executes    *)
(* from or none, and none only if that is FLASH_OTA1: what the choice of   *)
(* the spare partition (ota_test.c:403-418) relies on.                     *)
OriginalIsRunning ==
  (phase = "idle" /\ ~unsaved) => Original(param) = running /\ ~Pending(param)

(* The device comes up in the mode last asked for, unless the write of     *)
(* that request was cut or found no buffer; an update or a power cut       *)
(* elsewhere never turns it into manufacturing mode (utils.h:12, the mask  *)
(* is the erased word).                                                    *)
ModeIsAsAsked == (phase = "idle" /\ ~excused) => ModeOf(mode) = asked

(* A power cut in the middle of a mode switch leaves the old mode, the new *)
(* one or manufacturing mode: no other.                                    *)
ModeIsOldNewOrMp ==
  [][ModeOf(mode') \in {ModeOf(mode), asked', "mp"}]_vars
=============================================================================
