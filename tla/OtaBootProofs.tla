--------------------------- MODULE OtaBootProofs ----------------------------
(***************************************************************************)
(* Whatever the power does, what the bootloader may start is whole, and    *)
(* the run mode is the one asked for.                                      *)
(***************************************************************************)
EXTENDS OtaBoot, TLAPS

Whole(p) == image[p] = "whole"

(* The parameters p leave nothing to start but whole images, and while an  *)
(* upgrade is pending both partitions hold one.                            *)
Safe(p) ==
  /\ Whole(Original(p))
  /\ Pending(p) => Whole(OTA1) /\ Whole(OTA2)

(* The parameters p say which partition runs, and nothing is pending.      *)
Tells(p) == Original(p) = running /\ ~Pending(p)

(* An update aims at the partition that does not run.                      *)
Aimed == target = Other(running)

(* What the firmware relies on at the phase f, with the parameters p.      *)
Ready(f, p) ==
  /\ f = "init" => IF Pending(p) THEN /\ p.boot_addr = running
                                      /\ running \in BootChoices(p)
                                 ELSE Original(p) = running
  /\ f \in {"idle", "fetch", "download", "check", "record"} => Tells(p)
  /\ f \in {"fetch", "download", "check", "record"} => Aimed
  /\ f = "record" => Whole(target)

(* While the parameter sector is written, a blank one must do as well, and *)
(* what is written must suit the phase that follows.                       *)
Writing ==
  job.area = "param" =>
    /\ Whole(OTA1)
    /\ Safe(job.value)
    /\ job.then \in {"idle", "fetch", "init", "boot"}
    /\ Ready(job.then, job.value)

Saved == Safe(param) /\ Ready(phase, param) /\ Writing

(* The run mode, but for a write of it that is under way.                  *)
Mode ==
  /\ job.area = "mode" => job.value = WordOf(asked) /\ job.then = "boot"
  /\ ~excused /\ job.area # "mode" => ModeOf(mode) = asked

IInv == TypeOK /\ (~unsaved => Saved) /\ Mode

-----------------------------------------------------------------------------
LEMMA PartsAre == /\ OTA1 \in Parts /\ OTA2 \in Parts /\ NONE \notin Parts
                  /\ \A p \in Parts : p = OTA1 \/ p = OTA2
                  /\ \A p \in Parts : Other(p) \in Parts /\ Other(p) # p
                                      /\ p \in {OTA1, Other(p)} \cup {OTA2, Other(p)}
  BY AddressesAssumption DEF Parts, Other

(* What a type-correct parameter block may hold.                           *)
LEMMA ParamFields ==
  ASSUME NEW p \in BootParam
  PROVE  /\ p.upg_addr \in Parts \cup {NONE} /\ p.orig_addr \in Parts \cup {NONE}
         /\ p.boot_addr \in Parts \cup {NONE} /\ p.sig \in BOOLEAN
         /\ Original(p) \in Parts /\ Pending(p) \in BOOLEAN
         /\ Pending(p) => p.upg_addr \in Parts
         /\ BootChoices(p) \subseteq Parts
  BY PartsAre DEF BootParam, Original, Pending, BootChoices

LEMMA BlankIsParam ==
  /\ BlankParam \in BootParam
  /\ Original(BlankParam) = OTA1 /\ ~Pending(BlankParam)
  BY DEF BlankParam, BootParam, Original, Pending

(* The job while a sector is written.                                      *)
LEMMA JobFields ==
  ASSUME TypeOK
  PROVE  /\ (phase \in {"erase", "write"}) <=> (job # NoJob)
         /\ job # NoJob => /\ job.area \in {"param", "mode"}
                           /\ job.then \in CallerPhases
                           /\ job.area = "param" => job.value \in BootParam
                           /\ job.area = "mode" => job.value \in ModeWords
         /\ job = NoJob => job.area \notin {"param", "mode"}
<1> DEFINE ParamJobs == [area : {"param"}, value : BootParam, then : CallerPhases]
<1> DEFINE ModeJobs == [area : {"mode"}, value : ModeWords, then : CallerPhases]
<1>1. NoJob.area = "none"
  BY DEF NoJob
<1>2. \/ job = NoJob /\ phase \notin {"erase", "write"}
      \/ (job \in ParamJobs \/ job \in ModeJobs) /\ phase \in {"erase", "write"}
  BY DEF TypeOK
<1>3. job \in ParamJobs => /\ job.area = "param" /\ job.value \in BootParam
                          /\ job.then \in CallerPhases
  OBVIOUS
<1>4. job \in ModeJobs => /\ job.area = "mode" /\ job.value \in ModeWords
                         /\ job.then \in CallerPhases
  OBVIOUS
<1> HIDE DEF ParamJobs, ModeJobs
<1>5. CASE job = NoJob /\ phase \notin {"erase", "write"}
  BY <1>1, <1>5
<1>6. CASE job \in ParamJobs /\ phase \in {"erase", "write"}
  BY <1>1, <1>3, <1>6
<1>7. CASE job \in ModeJobs /\ phase \in {"erase", "write"}
  BY <1>1, <1>4, <1>7
<1> QED BY <1>2, <1>5, <1>6, <1>7

LEMMA InitIInv == Init => IInv
<1> HAVE Init
<1>1. PICK p \in Parts :
        /\ running = p
        /\ param \in {[BlankParam EXCEPT !.orig_addr = p, !.boot_addr = b] :
                        b \in {NONE, p}}
                     \cup (IF p = OTA1 THEN {BlankParam} ELSE {})
        /\ image \in {[q \in Parts |-> IF q = p THEN "whole" ELSE c] :
                        c \in {"whole", "broken"}}
  BY DEF Init
<1>2. param \in BootParam /\ Original(param) = running /\ ~Pending(param)
  <2>1. CASE param = BlankParam /\ p = OTA1
    BY <1>1, <2>1, BlankIsParam
  <2>2. ASSUME NEW b \in {NONE, p},
               param = [BlankParam EXCEPT !.orig_addr = p, !.boot_addr = b]
        PROVE  param \in BootParam /\ Original(param) = running /\ ~Pending(param)
    <3>1. param = [upg_addr |-> NONE, orig_addr |-> p, boot_addr |-> b,
                   sig |-> FALSE]
      BY <2>2 DEF BlankParam
    <3> QED BY <1>1, <3>1, PartsAre DEF BootParam, Original, Pending
  <2> QED BY <1>1, <2>1, <2>2
<1>3. image \in [Parts -> {"whole", "broken"}] /\ Whole(running)
  BY <1>1 DEF Whole
<1>4. TypeOK
  BY <1>1, <1>2, <1>3
  DEF Init, TypeOK, NoJob, Phases, CallerPhases, RunModes, ModeWords, ModeOf
<1>5. Saved
  BY <1>2, <1>3 DEF Init, Saved, Safe, Ready, Tells, Writing, NoJob
<1>6. Mode
  BY DEF Init, Mode, NoJob
<1> QED BY <1>4, <1>5, <1>6 DEF IInv

-----------------------------------------------------------------------------
(* Steps that begin the write of a sector.                                 *)
LEMMA FlashParam ==
  ASSUME IInv, NEW v \in BootParam, NEW f \in CallerPhases, Flash("param", v, f),
         UNCHANGED <<param, mode, image, asked, excused, unsaved>>,
         running' \in Parts, target' \in Parts \cup {NONE}, job = NoJob,
         ~unsaved => /\ Whole(OTA1) /\ Safe(param) /\ Safe(v)
                     /\ f \in {"idle", "fetch", "init", "boot"}
                     /\ Ready(f, v)'
  PROVE  IInv'
<1>1. /\ phase' = "erase" /\ job'.area = "param" /\ job'.value = v
      /\ job'.then = f
  BY DEF Flash
<1>2. TypeOK'
  BY <1>1 DEF IInv, TypeOK, Flash, Phases, CallerPhases
<1>3. Mode'
  BY <1>1, JobFields DEF IInv, Mode
<1>4. ASSUME ~unsaved' PROVE Saved'
  <2>1. Safe(param)' /\ Ready(phase, param)'
    BY <1>1, <1>4 DEF Safe, Whole, Ready
  <2>2. Whole(OTA1)' /\ Safe(v)' /\ Ready(f, v)'
    BY <1>4 DEF Safe, Whole
  <2>3. Writing'
    BY <1>1, <1>4, <2>2 DEF Writing, Safe, Whole, Ready, Tells, Aimed
  <2> QED BY <2>1, <2>3 DEF Saved
<1> QED BY <1>2, <1>3, <1>4 DEF IInv

(* Steps of the firmware that write no sector.                             *)
LEMMA NoFlash ==
  ASSUME IInv, job = NoJob, phase' \in Phases \ {"erase", "write"},
         UNCHANGED <<param, mode, asked, excused, job>>,
         image' \in [Parts -> {"whole", "broken"}],
         running' \in Parts, target' \in Parts \cup {NONE}, unsaved' \in BOOLEAN,
         ~unsaved' => Safe(param)' /\ Ready(phase, param)'
  PROVE  IInv'
<1>1. TypeOK'
  BY DEF IInv, TypeOK
<1>2. Mode'
  BY DEF IInv, Mode
<1>3. Writing'
  BY JobFields DEF IInv, Writing
<1> QED BY <1>1, <1>2, <1>3 DEF IInv, Saved

LEMMA BootloaderStep == ASSUME IInv, Bootloader PROVE IInv'
<1>1. PICK p \in BootChoices(param) :
        /\ running' = p
        /\ IF Pending(param)
             THEN Flash("param", [param EXCEPT !.boot_addr = p], "init")
             ELSE phase' = "init" /\ UNCHANGED job
  BY DEF Bootloader
<1>2. /\ phase = "boot"
      /\ UNCHANGED <<param, mode, image, target, asked, excused, unsaved>>
  BY DEF Bootloader
<1>3. param \in BootParam /\ p \in Parts /\ job = NoJob
  BY <1>2, ParamFields, JobFields DEF IInv, TypeOK
<1>4. CASE Pending(param)
  <2>0. PICK v \in BootParam : v = [param EXCEPT !.boot_addr = p]
    BY <1>3 DEF BootParam
  <2>1. /\ v.upg_addr = param.upg_addr
        /\ v.orig_addr = param.orig_addr /\ v.boot_addr = p /\ v.sig = param.sig
    BY <1>3, <2>0 DEF BootParam
  <2>2. /\ Original(v) = Original(param) /\ Pending(v)
        /\ BootChoices(v) = BootChoices(param)
    BY <1>4, <2>1 DEF Original, Pending, BootChoices
  <2>3. ~unsaved => Whole(OTA1) /\ Safe(param) /\ Safe(v)
    BY <1>4, <2>2 DEF IInv, Saved, Safe
  <2>4. Ready("init", v)'
    BY <1>1, <2>1, <2>2 DEF Ready
  <2>5. Flash("param", v, "init")
    BY <1>1, <1>4, <2>0
  <2>6. running' \in Parts /\ target' \in Parts \cup {NONE} /\ "init" \in CallerPhases
    BY <1>1, <1>2, <1>3 DEF IInv, TypeOK, Phases, CallerPhases
  <2> QED BY <1>2, <1>3, <2>1, <2>3, <2>4, <2>5, <2>6, FlashParam
<1>5. CASE ~Pending(param)
  <2>1. phase' = "init" /\ UNCHANGED job /\ running' = Original(param)
    BY <1>1, <1>5 DEF BootChoices
  <2>2. ~unsaved' => Safe(param)' /\ Ready(phase, param)'
    BY <1>2, <1>5, <2>1 DEF IInv, Saved, Safe, Whole, Ready
  <2>3. /\ image' \in [Parts -> {"whole", "broken"}] /\ running' \in Parts
        /\ target' \in Parts \cup {NONE} /\ unsaved' \in BOOLEAN
        /\ phase' \in Phases \ {"erase", "write"}
    BY <1>1, <1>2, <1>3, <2>1 DEF IInv, TypeOK, Phases, CallerPhases
  <2> QED BY <1>2, <1>3, <2>1, <2>2, <2>3, NoFlash
<1> QED BY <1>4, <1>5

LEMMA InitParamsStep == ASSUME IInv, ota_init_boot_params PROVE IInv'
<1>1. /\ phase = "init"
      /\ UNCHANGED <<param, mode, image, running, target, asked, excused>>
  BY DEF ota_init_boot_params
<1>2. param \in BootParam /\ job = NoJob
  BY <1>1, JobFields DEF IInv, TypeOK
<1>3. ASSUME ~Pending(param), phase' = "idle", UNCHANGED <<job, unsaved>>
      PROVE  IInv'
  <2>1. ~unsaved' => Safe(param)' /\ Ready(phase, param)'
    BY <1>1, <1>3 DEF IInv, Saved, Safe, Whole, Ready, Tells
  <2>2. /\ image' \in [Parts -> {"whole", "broken"}] /\ running' \in Parts
        /\ target' \in Parts \cup {NONE} /\ unsaved' \in BOOLEAN
        /\ phase' \in Phases \ {"erase", "write"}
    BY <1>1, <1>3 DEF IInv, TypeOK, Phases, CallerPhases
  <2> QED BY <1>1, <1>2, <1>3, <2>1, <2>2, NoFlash
<1>4. ASSUME Pending(param), Flash("param", Settled(param), "idle"),
             UNCHANGED unsaved
      PROVE  IInv'
  <2>0. PICK v \in BootParam : v = Settled(param)
    BY <1>2 DEF Settled, BootParam
  <2>1. /\ v.upg_addr = NONE
        /\ v.orig_addr = IF param.boot_addr # param.upg_addr
                           THEN param.orig_addr ELSE param.boot_addr
    BY <1>2, <2>0 DEF Settled, BootParam
  <2>2. ~Pending(v)
    BY <2>1 DEF Pending
  <2>3. ASSUME ~unsaved PROVE Original(v) = running
    <3>1. param.boot_addr = running /\ running \in BootChoices(param)
      BY <1>1, <1>4, <2>3 DEF IInv, Saved, Ready
    <3>2. CASE running = param.upg_addr
      <4>1. v.orig_addr = running /\ running # NONE
        BY <1>4, <2>1, <3>1, <3>2 DEF Pending
      <4> QED BY <4>1 DEF Original
    <3>3. CASE running # param.upg_addr
      <4>1. running = Original(param) /\ v.orig_addr = param.orig_addr
        BY <2>1, <3>1, <3>3 DEF BootChoices
      <4> QED BY <4>1 DEF Original
    <3> QED BY <3>2, <3>3
  <2>4. ~unsaved => Whole(OTA1) /\ Whole(OTA2) /\ Safe(param)
    BY <1>4 DEF IInv, Saved, Safe
  <2>5. ~unsaved => Safe(v) /\ Ready("idle", v)'
    BY <1>1, <2>1, <2>2, <2>3, <2>4, ParamFields, PartsAre DEF Safe, Ready, Tells
  <2>6. Flash("param", v, "idle") /\ "idle" \in CallerPhases
    BY <1>4, <2>0 DEF Phases, CallerPhases
  <2>7. running' \in Parts /\ target' \in Parts \cup {NONE}
    BY <1>1 DEF IInv, TypeOK
  <2> QED BY <1>1, <1>2, <1>4, <2>1, <2>4, <2>5, <2>6, <2>7, FlashParam
<1>5. ASSUME phase' = "idle", unsaved' = TRUE, UNCHANGED job
      PROVE  IInv'
  <2>1. /\ image' \in [Parts -> {"whole", "broken"}] /\ running' \in Parts
        /\ target' \in Parts \cup {NONE} /\ unsaved' \in BOOLEAN
        /\ phase' \in Phases \ {"erase", "write"}
    BY <1>1, <1>5 DEF IInv, TypeOK, Phases, CallerPhases
  <2> QED BY <1>1, <1>2, <1>5, <2>1, NoFlash
<1> QED BY <1>3, <1>4, <1>5 DEF ota_init_boot_params, ota_first_boot_after_update

(* The spare partition is the one that does not run.                       *)
LEMMA SpareIsOther ==
  ASSUME TypeOK, Tells(param)
  PROVE  Spare(param) = Other(running) /\ Spare(param) \in Parts
<1>1. param \in BootParam
  BY DEF TypeOK
<1>2. param.orig_addr \in {OTA1, OTA2, NONE}
  BY <1>1, ParamFields DEF Parts
<1> QED BY <1>2, AddressesAssumption DEF Spare, Other, Tells, Original, Parts

LEMMA InitFlashStep == ASSUME IInv, ota_init_flash_params PROVE IInv'
<1>1. /\ phase = "idle" /\ target' = Spare(param)
      /\ UNCHANGED <<param, mode, image, running, asked, excused, unsaved>>
  BY DEF ota_init_flash_params
<1>2. param \in BootParam /\ job = NoJob /\ running \in Parts
  BY <1>1, JobFields DEF IInv, TypeOK
<1>3. target' \in Parts
  BY <1>1, <1>2, ParamFields, PartsAre DEF Spare
<1>4. ~unsaved => Tells(param) /\ Safe(param) /\ target' = Other(running)
  BY <1>1, SpareIsOther DEF IInv, Saved, Ready
<1>5. ASSUME param.orig_addr = NONE,
             Flash("param", [BlankParam EXCEPT !.orig_addr = OTA1], "fetch")
      PROVE  IInv'
  <2>0. PICK v \in BootParam : v = [BlankParam EXCEPT !.orig_addr = OTA1]
    BY BlankIsParam, PartsAre DEF BootParam
  <2>1. v.orig_addr = OTA1 /\ v.upg_addr = NONE
    BY <2>0 DEF BlankParam
  <2>2. Original(v) = OTA1 /\ ~Pending(v) /\ Original(param) = OTA1
    BY <1>5, <2>1 DEF Original, Pending
  <2>3. ~unsaved => Whole(OTA1) /\ Safe(v)
    BY <1>4, <2>2 DEF Safe
  <2>4. ~unsaved => Ready("fetch", v)'
    BY <1>1, <1>4, <2>2 DEF Ready, Tells, Aimed
  <2>5. "fetch" \in CallerPhases /\ Flash("param", v, "fetch")
    BY <1>5, <2>0 DEF Phases, CallerPhases
  <2> QED BY <1>1, <1>2, <1>3, <1>4, <2>3, <2>4, <2>5, FlashParam
<1>6. ASSUME phase' = "fetch", UNCHANGED job PROVE IInv'
  <2>1. ~unsaved' => Safe(param)' /\ Ready(phase, param)'
    BY <1>1, <1>4, <1>6 DEF Safe, Whole, Ready, Tells, Aimed
  <2>2. /\ image' \in [Parts -> {"whole", "broken"}] /\ running' \in Parts
        /\ unsaved' \in BOOLEAN /\ phase' \in Phases \ {"erase", "write"}
    BY <1>1, <1>6 DEF IInv, TypeOK, Phases, CallerPhases
  <2> QED BY <1>1, <1>2, <1>3, <1>6, <2>1, <2>2, NoFlash
<1> QED BY <1>5, <1>6 DEF ota_init_flash_params

LEMMA DownloadStep ==
  ASSUME IInv,
         \/ RequestFails \/ ota_start_write_flash
         \/ ota_http_download_new_fw \/ ota_check_image
  PROVE  IInv'
<1>1. /\ phase \in {"fetch", "download", "check"}
      /\ UNCHANGED <<param, mode, running, target, job, asked, excused, unsaved>>
      /\ phase' \in {"idle", "download", "check", "record"}
      /\ phase' = "record" => image[target] = "whole"
      /\ \/ UNCHANGED image
         \/ \E what \in {"whole", "broken"} : image' = [image EXCEPT ![target] = what]
      /\ phase' = "record" => UNCHANGED image
  BY DEF RequestFails, ota_start_write_flash, ota_http_download_new_fw,
         ota_check_image
<1>2. job = NoJob /\ image' \in [Parts -> {"whole", "broken"}]
  BY <1>1, JobFields DEF IInv, TypeOK
<1>3. ASSUME ~unsaved PROVE Safe(param)' /\ Ready(phase, param)'
  <2>1. Safe(param) /\ Tells(param) /\ target = Other(running) /\ running \in Parts
    BY <1>1, <1>3 DEF IInv, Saved, Ready, Aimed, TypeOK
  <2>2. target # running
    BY <2>1, PartsAre
  <2>3. image'[running] = image[running]
    BY <1>1, <2>1, <2>2 DEF IInv, TypeOK
  <2>4. Safe(param)'
    BY <1>1, <2>1, <2>3 DEF Safe, Tells, Whole
  <2>5. Ready(phase, param)'
    BY <1>1, <2>1 DEF Ready, Tells, Aimed, Whole
  <2> QED BY <2>4, <2>5
<1>4. /\ running' \in Parts /\ target' \in Parts \cup {NONE}
      /\ unsaved' \in BOOLEAN /\ phase' \in Phases \ {"erase", "write"}
  BY <1>1 DEF IInv, TypeOK, Phases, CallerPhases
<1> QED BY <1>1, <1>2, <1>3, <1>4, NoFlash

LEMMA RecordStep == ASSUME IInv, ota_write_boot_params PROVE IInv'
<1>1. /\ phase = "record"
      /\ UNCHANGED <<param, mode, image, running, target, asked, excused, unsaved>>
  BY DEF ota_write_boot_params
<1>2. /\ param \in BootParam /\ job = NoJob /\ running \in Parts
      /\ target \in Parts \cup {NONE}
  BY <1>1, JobFields DEF IInv, TypeOK
<1>3. ASSUME ~unsaved
      PROVE  /\ Safe(param) /\ Tells(param) /\ Whole(OTA1) /\ Whole(OTA2)
             /\ target = Other(running)
  <2>1. Safe(param) /\ Tells(param) /\ target = Other(running) /\ Whole(target)
    BY <1>1, <1>3 DEF IInv, Saved, Ready, Aimed
  <2> QED BY <1>2, <2>1, PartsAre DEF Safe, Tells, Other
<1>4. ASSUME Flash("param", Upgrade(param), "boot") PROVE IInv'
  <2>0. PICK v \in BootParam : v = Upgrade(param)
    BY <1>2 DEF Upgrade, BootParam
  <2>1. v.orig_addr = param.orig_addr
    BY <1>2, <2>0 DEF Upgrade, BootParam
  <2>2. ~unsaved => Safe(v)
    BY <1>2, <1>3, <2>1, ParamFields, PartsAre DEF Safe, Original
  <2>3. Ready("boot", v)' /\ "boot" \in CallerPhases /\ Flash("param", v, "boot")
    BY <1>4, <2>0 DEF Ready, Phases, CallerPhases
  <2>4. running' \in Parts /\ target' \in Parts \cup {NONE}
    BY <1>1, <1>2
  <2> QED BY <1>1, <1>2, <1>3, <2>2, <2>3, <2>4, FlashParam
<1>5. ASSUME phase' \in {"idle", "boot"}, UNCHANGED job PROVE IInv'
  <2>1. ~unsaved' => Safe(param)' /\ Ready(phase, param)'
    BY <1>1, <1>3, <1>5 DEF Safe, Whole, Ready, Tells
  <2>2. /\ image' \in [Parts -> {"whole", "broken"}] /\ running' \in Parts
        /\ target' \in Parts \cup {NONE} /\ unsaved' \in BOOLEAN
        /\ phase' \in Phases \ {"erase", "write"}
    BY <1>1, <1>2, <1>5 DEF IInv, TypeOK, Phases, CallerPhases
  <2> QED BY <1>1, <1>2, <1>5, <2>1, <2>2, NoFlash
<1> QED BY <1>4, <1>5 DEF ota_write_boot_params

-----------------------------------------------------------------------------
(* The run mode, the flash commands, and the power.                        *)
LEMMA ModeSwitchStep ==
  ASSUME IInv, NEW m \in RunModes, mode_switch_hdl(m) PROVE IInv'
<1>1. /\ phase = "idle" /\ asked' = m
      /\ UNCHANGED <<param, mode, image, running, target, unsaved>>
      /\ \/ Flash("mode", WordOf(m), "boot") /\ excused' = FALSE
         \/ phase' = "boot" /\ excused' = TRUE /\ UNCHANGED job
  BY DEF mode_switch_hdl
<1>2. job = NoJob /\ job.area \notin {"param", "mode"}
  BY <1>1, JobFields DEF IInv
<1>3. WordOf(m) \in ModeWords
  BY DEF WordOf, ModeWords, RunModes
<1>4. CASE Flash("mode", WordOf(m), "boot") /\ excused' = FALSE
  <2>1. /\ phase' = "erase" /\ job'.area = "mode" /\ job'.value = WordOf(m)
        /\ job'.then = "boot"
    BY <1>4 DEF Flash
  <2>2. TypeOK'
    BY <1>1, <1>3, <1>4 DEF IInv, TypeOK, Flash, Phases, CallerPhases
  <2>3. Mode' /\ Writing'
    BY <1>1, <2>1 DEF Mode, Writing, WordOf
  <2>4. ~unsaved => Safe(param)' /\ Ready(phase, param)'
    BY <1>1, <2>1 DEF IInv, Saved, Safe, Whole, Ready
  <2> QED BY <1>1, <2>2, <2>3, <2>4 DEF IInv, Saved
<1>5. CASE phase' = "boot" /\ excused' = TRUE /\ UNCHANGED job
  <2>1. TypeOK'
    BY <1>1, <1>2, <1>5 DEF IInv, TypeOK, Phases, CallerPhases
  <2>2. Mode' /\ Writing'
    BY <1>1, <1>2, <1>5 DEF Mode, Writing
  <2>3. ~unsaved => Safe(param)' /\ Ready(phase, param)'
    BY <1>1, <1>5 DEF IInv, Saved, Safe, Whole, Ready
  <2> QED BY <1>1, <2>1, <2>2, <2>3 DEF IInv, Saved
<1> QED BY <1>1, <1>4, <1>5

LEMMA EraseStep == ASSUME IInv, EraseSector PROVE IInv'
<1>1. /\ phase = "erase" /\ phase' = "write"
      /\ UNCHANGED <<image, running, target, job, asked, excused, unsaved>>
  BY DEF EraseSector
<1>2. job # NoJob /\ job.area \in {"param", "mode"}
  BY <1>1, JobFields DEF IInv
<1>3. CASE job.area = "param"
  <2>1. param' = BlankParam /\ UNCHANGED mode
    BY <1>3 DEF EraseSector
  <2>2. TypeOK'
    BY <1>1, <2>1, BlankIsParam DEF IInv, TypeOK, Phases, CallerPhases, NoJob
  <2>3. Mode'
    BY <1>1, <1>3, <2>1 DEF IInv, Mode
  <2>4. ASSUME ~unsaved' PROVE Saved'
    <3>1. Whole(OTA1) /\ Writing
      BY <1>1, <1>3, <2>4 DEF IInv, Saved, Writing
    <3>2. Safe(BlankParam)'
      BY <1>1, <3>1, BlankIsParam DEF Safe, Whole, Original, Pending, BlankParam
    <3>3. Safe(param)'
      BY <2>1, <3>2 DEF Safe
    <3>4. Ready(phase, param)' /\ Writing'
      BY <1>1, <3>1 DEF Ready, Writing, Safe, Whole, Tells, Aimed
    <3> QED BY <3>3, <3>4 DEF Saved
  <2> QED BY <2>2, <2>3, <2>4 DEF IInv
<1>4. CASE job.area = "mode"
  <2>1. mode' = "ones" /\ UNCHANGED param
    BY <1>2, <1>4 DEF EraseSector
  <2>2. TypeOK'
    BY <1>1, <2>1 DEF IInv, TypeOK, Phases, CallerPhases, NoJob, ModeWords
  <2>3. Mode'
    BY <1>1, <1>4, <2>1 DEF IInv, Mode
  <2>4. ~unsaved' => Saved'
    BY <1>1, <1>4, <2>1 DEF IInv, Saved, Safe, Whole, Ready, Writing
  <2> QED BY <2>2, <2>3, <2>4 DEF IInv
<1> QED BY <1>2, <1>3, <1>4

LEMMA WordIsMode ==
  ASSUME NEW m \in RunModes PROVE ModeOf(WordOf(m)) = m
<1>1. m \in {"mp", "normal", "test"}
  BY DEF RunModes
<1>2. CASE m = "mp"
  BY <1>2 DEF ModeOf, WordOf
<1>3. CASE m = "normal"
  BY <1>3 DEF ModeOf, WordOf
<1>4. CASE m = "test"
  BY <1>4 DEF ModeOf, WordOf
<1> QED BY <1>1, <1>2, <1>3, <1>4

LEMMA WriteStep == ASSUME IInv, WriteSector PROVE IInv'
<1>1. /\ phase = "write" /\ phase' = job.then /\ job' = NoJob
      /\ UNCHANGED <<image, running, target, asked, excused, unsaved>>
  BY DEF WriteSector
<1>2. job # NoJob /\ job.area \in {"param", "mode"} /\ job'.area \notin {"param", "mode"}
  BY <1>1, JobFields DEF IInv, NoJob
<1>3. CASE job.area = "param"
  <2>1. param' = job.value /\ UNCHANGED mode /\ job.value \in BootParam
    BY <1>2, <1>3, JobFields DEF WriteSector, IInv
  <2>2. ASSUME ~unsaved'
        PROVE  Saved' /\ job.then \in {"idle", "fetch", "init", "boot"}
    <3>1. Safe(job.value) /\ Ready(job.then, job.value)
          /\ job.then \in {"idle", "fetch", "init", "boot"}
      BY <1>1, <1>3, <2>2 DEF IInv, Saved, Writing
    <3>2. Safe(param)' /\ Ready(phase, param)'
      BY <1>1, <2>1, <3>1 DEF Safe, Whole, Ready, Tells, Aimed
    <3> QED BY <1>2, <3>1, <3>2 DEF Saved, Writing
  <2>3. job.then \in CallerPhases
    BY <1>2, JobFields DEF IInv
  <2>4. Mode'
    BY <1>1, <1>2, <1>3, <2>1 DEF IInv, Mode
  <2>5. TypeOK'
    BY <1>1, <2>1, <2>3 DEF IInv, TypeOK, CallerPhases
  <2> QED BY <1>1, <2>2, <2>4, <2>5 DEF IInv
<1>4. CASE job.area = "mode"
  <2>1. /\ mode' = job.value /\ UNCHANGED param /\ job.value \in ModeWords
        /\ job.value = WordOf(asked) /\ job.then = "boot" /\ asked \in RunModes
    BY <1>2, <1>4, JobFields DEF WriteSector, IInv, Mode, TypeOK
  <2>2. TypeOK'
    BY <1>1, <2>1 DEF IInv, TypeOK, Phases, CallerPhases
  <2>3. Mode'
    BY <1>1, <1>2, <2>1, WordIsMode DEF Mode
  <2>4. ~unsaved' => Saved'
    BY <1>1, <1>2, <2>1 DEF IInv, Saved, Safe, Whole, Ready, Writing
  <2> QED BY <2>2, <2>3, <2>4 DEF IInv
<1> QED BY <1>2, <1>3, <1>4

LEMMA PowerCutStep == ASSUME IInv, PowerCut PROVE IInv'
<1>1. /\ phase' = "boot" /\ target' = NONE /\ job' = NoJob
      /\ excused' = (excused \/ (job # NoJob /\ job.area = "mode"))
      /\ UNCHANGED <<param, mode, image, running, asked, unsaved>>
  BY DEF PowerCut
<1>2. TypeOK'
  BY <1>1 DEF IInv, TypeOK, Phases, CallerPhases
<1>3. job.area = "mode" => job # NoJob
  BY JobFields DEF IInv
<1>4. Mode'
  BY <1>1, <1>3 DEF IInv, Mode, NoJob
<1>5. ~unsaved' => Saved'
  BY <1>1 DEF IInv, Saved, Safe, Whole, Ready, Writing, NoJob
<1> QED BY <1>2, <1>4, <1>5 DEF IInv

LEMMA StutterStep == ASSUME IInv, UNCHANGED vars PROVE IInv'
<1> USE DEF vars
<1>1. TypeOK'
  BY DEF IInv, TypeOK
<1>2. Mode'
  BY DEF IInv, Mode
<1>3. ~unsaved' => Saved'
  BY DEF IInv, Saved, Safe, Whole, Ready, Tells, Aimed, Writing
<1> QED BY <1>1, <1>2, <1>3 DEF IInv

LEMMA StepIInv == IInv /\ [Next]_vars => IInv'
<1> SUFFICES ASSUME IInv, [Next]_vars PROVE IInv'
  OBVIOUS
<1>1. CASE Bootloader
  BY <1>1, BootloaderStep
<1>2. CASE ota_init_boot_params
  BY <1>2, InitParamsStep
<1>3. CASE ota_init_flash_params
  BY <1>3, InitFlashStep
<1>4. CASE \/ RequestFails \/ ota_start_write_flash
           \/ ota_http_download_new_fw \/ ota_check_image
  BY <1>4, DownloadStep
<1>5. CASE ota_write_boot_params
  BY <1>5, RecordStep
<1>6. CASE \E m \in RunModes : mode_switch_hdl(m)
  BY <1>6, ModeSwitchStep
<1>7. CASE EraseSector
  BY <1>7, EraseStep
<1>8. CASE WriteSector
  BY <1>8, WriteStep
<1>9. CASE PowerCut
  BY <1>9, PowerCutStep
<1>10. CASE UNCHANGED vars
  BY <1>10, StutterStep
<1> QED BY <1>1, <1>2, <1>3, <1>4, <1>5, <1>6, <1>7, <1>8, <1>9, <1>10 DEF Next

LEMMA InvariantOfSpec == Spec => []IInv
  BY InitIInv, StepIInv, PTL DEF Spec

-----------------------------------------------------------------------------
(* Both flash sectors always hold what their readers expect, and a sector  *)
(* write is under way exactly while the device is erasing or writing.      *)
THEOREM TypeCorrect == Spec => []TypeOK
<1>1. IInv => TypeOK
  BY DEF IInv
<1> QED BY <1>1, InvariantOfSpec, PTL

(* Whatever instant the power is cut at, every partition the bootloader    *)
(* may then start holds a whole image, but after a boot that could not     *)
(* store its parameters (utils.c:98, ota_test.c:140, 768).                 *)
THEOREM BootChoicesStayWhole == Spec => []EveryBootChoiceIsWhole
<1>1. IInv => EveryBootChoiceIsWhole
  <2> SUFFICES ASSUME IInv, ~unsaved, NEW p \in BootChoices(param)
               PROVE  image[p] = "whole"
    BY DEF EveryBootChoiceIsWhole
  <2>1. param \in BootParam /\ Safe(param)
    BY DEF IInv, TypeOK, Saved
  <2>2. CASE p = Original(param)
    BY <2>1, <2>2 DEF Safe, Whole
  <2>3. CASE p # Original(param)
    <3>1. Pending(param) /\ p \in Parts
      BY <2>1, <2>3, ParamFields DEF BootChoices
    <3> QED BY <2>1, <3>1, PartsAre DEF Safe, Whole
  <2> QED BY <2>2, <2>3
<1> QED BY <1>1, InvariantOfSpec, PTL

(* An update never erases the partition the processor executes from        *)
(* (ota_test.c:140), with the same exception.                              *)
THEOREM TargetStaysSpare == Spec => []TargetIsSpare
<1>1. IInv => TargetIsSpare
  BY PartsAre DEF IInv, TypeOK, TargetIsSpare, Saved, Safe, Whole, Ready, Tells,
                  Aimed
<1> QED BY <1>1, InvariantOfSpec, PTL

(* When the device is up, the parameters name the partition it runs from   *)
(* (ota_test.c:403-418).                                                   *)
THEOREM OriginalStaysRunning == Spec => []OriginalIsRunning
<1>1. IInv => OriginalIsRunning
  BY DEF IInv, Saved, Ready, Tells, OriginalIsRunning
<1> QED BY <1>1, InvariantOfSpec, PTL

(* The device comes up in the mode last asked for, unless that request was *)
(* cut or found no buffer (utils.c:154-179).                               *)
THEOREM ModeStaysAsAsked == Spec => []ModeIsAsAsked
<1>1. IInv => ModeIsAsAsked
  BY JobFields DEF IInv, Mode, ModeIsAsAsked
<1> QED BY <1>1, InvariantOfSpec, PTL

(* A cut in the middle of a mode switch leaves the old mode, the new one   *)
(* or manufacturing mode (utils.c:98).                                     *)
THEOREM ModeChangesAsAsked == Spec => ModeIsOldNewOrMp
<1>1. ASSUME IInv, [Next]_vars, ~UNCHANGED vars
      PROVE  ModeOf(mode') \in {ModeOf(mode), asked', "mp"}
  <2>1. CASE UNCHANGED mode
    BY <2>1
  <2>2. CASE EraseSector
    BY <2>2 DEF EraseSector, ModeOf
  <2>3. CASE WriteSector
    <3>1. UNCHANGED mode \/ job.area = "mode"
      <4>1. phase = "write" /\ TypeOK
        BY <1>1, <2>3 DEF IInv, WriteSector
      <4>2. job.area \in {"param", "mode"}
        BY <4>1, JobFields
      <4> QED BY <2>3, <4>2 DEF WriteSector
    <3>2. CASE job.area = "mode"
      <4>1. mode' = WordOf(asked) /\ asked' = asked /\ asked \in RunModes
        BY <1>1, <2>3, <3>2 DEF IInv, Mode, TypeOK, WriteSector
      <4> QED BY <4>1, WordIsMode
    <3> QED BY <2>1, <3>1, <3>2
  <2> QED BY <1>1, <2>1, <2>2, <2>3
          DEF Next, vars, Bootloader, ota_init_boot_params, ota_init_flash_params,
              RequestFails, ota_start_write_flash, ota_http_download_new_fw,
              ota_check_image, ota_write_boot_params, mode_switch_hdl, PowerCut
<1>2. IInv /\ [Next]_vars => [ModeOf(mode') \in {ModeOf(mode), asked', "mp"}]_vars
  BY <1>1
<1> QED BY <1>2, InvariantOfSpec, PTL DEF Spec, ModeIsOldNewOrMp
=============================================================================
