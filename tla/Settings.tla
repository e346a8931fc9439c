------------------------------ MODULE Settings ------------------------------
(***************************************************************************)
(* nvs_config.c and the handlers of http_server.c that change settings.    *)
(* A setter compares the new value with the cache and queues an update;    *)
(* nvs_task takes the updates one at a time, first into the cache, then    *)
(* into flash.  Between the two, and while an update is queued, everyone   *)
(* reads the old value.  The device can lose power at any step; at boot    *)
(* the settings of older firmware are migrated and the cache is loaded.    *)
(* The clamp of tuning_limits.c, which stores what it corrects, runs       *)
(* beside the HTTP task.                                                   *)
(***************************************************************************)
EXTENDS Integers, Sequences, FiniteSets

CONSTANTS
    Slots,        \* the pool slots, by their keys "pool_1", "pool_2", ...
    Absent,       \* what a key without a value reads as
    Empty,        \* the empty string in a pool slot
    Urls,         \* pool addresses
    Passwords,    \* passwords a user may type
    QueueSize,    \* length of nvs_save_queue
    MaxRequests,  \* bound: requests
    MaxCrashes    \* bound: losses of power and failed flash writes

VARIABLES
    flash,     \* stored values, by key; legacy keys too
    cache,     \* settings[].value
    saveQueue, \* nvs_save_queue
    saver,     \* the update nvs_task has put into the cache and not into flash
    pools,     \* GLOBAL_STATE.SYSTEM_MODULE.pools
    warned,    \* last_warned_mhz of tuning_clamp_frequency
    http,      \* what is left of the request being handled
    boot,      \* the next step of the boot, or "up"
    accepted,  \* history: updates queued since the boot
    atBoot,    \* history: the cache after the boot
    failed,    \* history: updates of this boot that flash refused
    asked,     \* history: the frequency of the last body allowed, or 0
    requests, crashes   \* history, for the bounds

vars == <<flash, cache, saveQueue, saver, pools, warned, http, boot, accepted,
          atBoot, failed, asked, requests, crashes>>
nvsVars == <<flash, cache, saver, boot, atBoot, failed, crashes>>

Placeholder == "*****"    \* what the web page sends for a password not typed
DefaultPassword == "x"
Pool(u, p) == [url |-> u, pass |-> p]
StoredPools == [url : Urls, pass : Passwords \cup {DefaultPassword}] \cup {Empty}

\* Frequencies: a preset, the highest preset, one that needs overclocking.
Frequencies == 1 .. 3
tuning_frequency_range(overclock) == IF overclock THEN 1 .. 3 ELSE 1 .. 2

Keys == Slots \cup {"prim", "sec", "freq", "oc"}
\* Keys of older firmware: the main and the fallback pool, the frequency.
LegacyKeys == {"stratumurl", "fbstratumurl", "asicfrequency"}
Default(k) ==
    CASE k \in Slots -> Empty [] k = "prim" -> "pool_1" [] k = "sec" -> "pool_2"
      [] k = "freq" -> 1 [] k = "oc" -> FALSE
ValuesOf(k) ==
    CASE k \in Slots -> StoredPools [] k \in {"prim", "sec"} -> Slots
      [] k = "freq" -> Frequencies [] k = "oc" -> BOOLEAN
Updates == UNION {{[key |-> k, value |-> v] : v \in ValuesOf(k)} : k \in Keys}
NoUpdate == [key |-> Absent, value |-> Absent]
Idle == [kind |-> "idle"]

\* Settings of the right type; what waits was accepted; a request in progress
\* has the shape of one of the handlers.
TypeOK ==
    /\ \A k \in Keys : flash[k] \in ValuesOf(k) \cup {Absent} /\ cache[k] \in ValuesOf(k)
    /\ saveQueue \in Seq(Updates) /\ Len(saveQueue) <= QueueSize
    /\ saver \in Updates \cup {NoUpdate}
    /\ pools \in [Slots -> [url : Urls \cup {""}, pass : Passwords \cup {DefaultPassword}]] /\ warned \in Frequencies \cup {0}
    /\ boot \in {"pool1", "pool2", "select", "freq", "load", "up"}
    /\ http.kind \in {"idle", "set", "reload", "restart"}
    /\ http.kind = "set" => http.todo # <<>>

\* The keys of the migration are slots; a slot's key is no other key; no key is
\* called what a missing value reads as; there is an address to build in.
ASSUME SettingsAssumption ==
    /\ {"pool_1", "pool_2"} \subseteq Slots /\ Absent \notin Keys /\ Urls # {}
    /\ Slots \cap ({"prim", "sec", "freq", "oc"} \cup LegacyKeys) = {}
    /\ QueueSize \in Nat

BuiltIn == Pool(CHOOSE u \in Urls : TRUE, DefaultPassword)

\* parse_pool_config_json: the pool in memory; an empty slot has no address, but
\* the first has the built-in pool.
ParsePool(s, v) ==
    IF v # Empty THEN v
    ELSE IF s = "pool_1" THEN BuiltIn ELSE Pool("", DefaultPassword)

-----------------------------------------------------------------------------
(* nvs_config_init *)

NoSettings == [k \in Keys |-> Default(k)]

\* A device updated from older firmware, or one that has been set up before.
Init ==
    /\ \E u \in Urls, legacy \in BOOLEAN :
          flash = [k \in Keys \cup LegacyKeys |->
                     CASE k = "stratumurl" /\ legacy -> Pool(u, DefaultPassword)
                       [] k = "fbstratumurl" /\ legacy -> Pool(u, DefaultPassword)
                       [] k = "asicfrequency" /\ legacy -> 2
                       [] k = "pool_1" /\ ~legacy -> Pool(u, DefaultPassword)
                       [] OTHER -> Absent]
    /\ cache = NoSettings /\ pools = [s \in Slots |-> ParsePool(s, Empty)]
    /\ saveQueue = <<>> /\ saver = NoUpdate /\ warned = 0 /\ http = Idle
    /\ boot = "pool1" /\ accepted = <<>> /\ atBoot = NoSettings /\ failed = {}
    /\ asked = 0 /\ requests = 0 /\ crashes = 0

BootStep(from, to) == boot = from /\ boot' = to
BootFrame == UNCHANGED <<cache, saveQueue, saver, pools, warned, http, accepted,
                         atBoot, failed, asked, requests, crashes>>

\* read_legacy_str: an absent key reads as the built-in pool, a member of Urls.
ReadLegacy(k) ==
    IF flash[k] # Absent THEN flash[k] ELSE BuiltIn

\* migrate_legacy_pools: nothing to do once pool_1 exists; otherwise the two
\* pools and the selectors, one write at a time.
MigrateFirst ==
    \/ /\ BootStep("pool1", "freq") /\ flash["pool_1"] # Absent
       /\ UNCHANGED flash /\ BootFrame
    \/ /\ BootStep("pool1", "pool2") /\ flash["pool_1"] = Absent
       /\ flash' = [flash EXCEPT !["pool_1"] = ReadLegacy("stratumurl")] /\ BootFrame

MigrateSecond ==
    /\ BootStep("pool2", "select") /\ BootFrame
    /\ flash' = [flash EXCEPT !["pool_2"] = ReadLegacy("fbstratumurl")]

MigrateSelectors ==
    /\ BootStep("select", "freq") /\ BootFrame
    /\ flash' = [flash EXCEPT !["prim"] = "pool_1", !["sec"] = "pool_2"]

\* nvs_config_init_fallback for the keys with a predecessor: the frequency
\* stands for the fan speed and the theme color.
InitFallback ==
    /\ BootStep("freq", "load") /\ BootFrame
    /\ flash' = IF flash["freq"] = Absent /\ flash["asicfrequency"] # Absent
                THEN [flash EXCEPT !["freq"] = flash["asicfrequency"]] ELSE flash

\* The load loop; then SYSTEM_init_system, which parses the pools.
Load ==
    LET loaded == [k \in Keys |-> IF flash[k] = Absent THEN Default(k) ELSE flash[k]]
    IN  /\ BootStep("load", "up")
        /\ cache' = loaded /\ atBoot' = loaded /\ pools' = [s \in Slots |-> ParsePool(s, loaded[s])]
        /\ UNCHANGED <<flash, saveQueue, saver, warned, http, accepted, failed,
                       asked, requests, crashes>>

-----------------------------------------------------------------------------
(* nvs_task and the setters *)

\* The getters copy the cache under its mutex.
nvs_config_get(k) == cache[k]

\* A setter called with the value in the cache does nothing; xQueueSend waits
\* for room.
SetSetting(k, v) ==
    IF cache[k] = v THEN UNCHANGED <<saveQueue, accepted>>
    ELSE /\ Len(saveQueue) < QueueSize
         /\ saveQueue' = Append(saveQueue, [key |-> k, value |-> v])
         /\ accepted' = Append(accepted, [key |-> k, value |-> v])

\* Mutant: the newest update is taken first.
Mut_TakeUpdate ==
    /\ boot = "up" /\ saver = NoUpdate /\ saveQueue # <<>>
    /\ saver' = saveQueue[Len(saveQueue)]
    /\ saveQueue' = SubSeq(saveQueue, 1, Len(saveQueue) - 1)
    /\ cache' = [cache EXCEPT ![saver'.key] = saver'.value]
    /\ UNCHANGED <<flash, pools, warned, http, boot, accepted, atBoot, failed,
                   asked, requests, crashes>>

\* Mutant: no update is taken while a request is handled.
Mut_TakeUpdateAlone ==
    /\ boot = "up" /\ saver = NoUpdate /\ saveQueue # <<>> /\ http = Idle
    /\ saver' = Head(saveQueue) /\ saveQueue' = Tail(saveQueue)
    /\ cache' = [cache EXCEPT ![saver'.key] = saver'.value]
    /\ UNCHANGED <<flash, pools, warned, http, boot, accepted, atBoot, failed,
                   asked, requests, crashes>>

\* nvs_task takes an update: the cache first.
TakeUpdate ==
    /\ boot = "up" /\ saver = NoUpdate /\ saveQueue # <<>>
    /\ saver' = Head(saveQueue) /\ saveQueue' = Tail(saveQueue)
    /\ cache' = [cache EXCEPT ![saver'.key] = saver'.value]
    /\ UNCHANGED <<flash, pools, warned, http, boot, accepted, atBoot, failed,
                   asked, requests, crashes>>

\* nvs_config_apply_fallback keeps the key of older firmware in step, also when
\* the write of the new one failed.
ApplyFallback(f, u) ==
    IF u.key = "freq" THEN [f EXCEPT !["asicfrequency"] = u.value] ELSE f

\* Mutant: only the last of several updates is written.
Mut_WriteFlash ==
    /\ boot = "up" /\ saver # NoUpdate /\ saver' = NoUpdate
    /\ flash' = IF saveQueue = <<>>
                THEN ApplyFallback([flash EXCEPT ![saver.key] = saver.value], saver)
                ELSE flash
    /\ UNCHANGED <<cache, saveQueue, pools, warned, http, boot, accepted, atBoot,
                   failed, asked, requests, crashes>>

\* Then flash, and the commit; a failure is only logged.
WriteFlash ==
    /\ boot = "up" /\ saver # NoUpdate /\ saver' = NoUpdate
    /\ \/ /\ flash' = ApplyFallback([flash EXCEPT ![saver.key] = saver.value], saver)
          /\ UNCHANGED <<failed, crashes>>
       \/ /\ crashes < MaxCrashes /\ crashes' = crashes + 1
          /\ flash' = ApplyFallback(flash, saver)
          /\ failed' = failed \cup {Len(accepted) - Len(saveQueue)}
    /\ UNCHANGED <<cache, saveQueue, pools, warned, http, boot, accepted, atBoot,
                   asked, requests>>

\* The memory of a device that starts again.
Restarted ==
    /\ boot' = "pool1" /\ cache' = NoSettings /\ pools' = [s \in Slots |-> ParsePool(s, Empty)]
    /\ saveQueue' = <<>> /\ saver' = NoUpdate /\ warned' = 0 /\ http' = Idle
    /\ accepted' = <<>> /\ atBoot' = NoSettings /\ failed' = {} /\ asked' = 0
    /\ UNCHANGED <<flash, requests>>

Crash == crashes < MaxCrashes /\ crashes' = crashes + 1 /\ Restarted

-----------------------------------------------------------------------------
(* tuning_limits.c *)

\* tuning_clamp_frequency, called by the power task at every poll: a value out
\* of the envelope is stored corrected, unless it was warned of last time.
ClampFrequency ==
    LET freq == nvs_config_get("freq")
        clamped == IF freq \in tuning_frequency_range(nvs_config_get("oc")) THEN freq ELSE 2
    IN  /\ boot = "up" /\ clamped # freq /\ freq # warned
        /\ warned' = freq /\ SetSetting("freq", clamped)
        /\ UNCHANGED <<nvsVars, pools, http, asked, requests>>

-----------------------------------------------------------------------------
(* http_server.c *)

\* What a user asks for: a body names some settings and pools.
PoolBodies == [url : Urls \cup {Absent}, pass : Passwords \cup {Placeholder}]
Bodies ==
    {<<[key |-> "freq", value |-> f]>> : f \in Frequencies}
    \cup {<<[key |-> "freq", value |-> 3], [key |-> "oc", value |-> b]>> : b \in BOOLEAN}
    \cup {<<[key |-> "oc", value |-> b]>> : b \in BOOLEAN}
    \cup {<<[key |-> "prim", value |-> s]>> : s \in Slots}

\* validate_pool_json: a required field is missing, of another type or out of
\* range; the address stands for all of them.
ValidPool(p) == p.url # Absent

Begin(next) == requests < MaxRequests /\ boot = "up" /\ http = Idle
               /\ requests' = requests + 1 /\ http' = next
HttpFrame == UNCHANGED <<nvsVars, saveQueue, pools, warned, accepted>>
PoolFrame == HttpFrame /\ UNCHANGED asked

\* check_settings_and_update, first half: the frequency must lie in the envelope
\* of the overclock flag of the same body, else of the stored one.
BodyAllowed(body) ==
    \A i \in DOMAIN body :
        body[i].key = "freq" =>
            LET named == {j \in DOMAIN body : body[j].key = "oc"}
                oc == IF named = {} THEN nvs_config_get("oc")
                      ELSE body[CHOOSE j \in named : TRUE].value
            IN  body[i].value \in tuning_frequency_range(oc)

\* PATCH_update_settings: nothing is stored unless all of the body is allowed.
PATCH_update_settings ==
    /\ \E body \in Bodies :
          IF BodyAllowed(body)
          THEN /\ Begin([kind |-> "set", todo |-> body])
               /\ asked' = IF body[1].key = "freq" THEN body[1].value ELSE 0
          ELSE Begin(Idle) /\ UNCHANGED asked
    /\ HttpFrame

\* The second half: one setter after the other.
SetNext ==
    /\ http.kind = "set" /\ Head(http.todo).key \notin Slots
    /\ SetSetting(Head(http.todo).key, Head(http.todo).value)
    /\ http' = IF Len(http.todo) = 1 THEN Idle ELSE [http EXCEPT !.todo = Tail(@)]
    /\ UNCHANGED <<nvsVars, pools, warned, asked, requests>>

\* PUT_system_pool, and the pools of a PATCH.
PUT_system_pool ==
    /\ \E s \in Slots, p \in PoolBodies :
          Begin(IF ValidPool(p) THEN [kind |-> "set", todo |-> <<[key |-> s, value |-> p]>>]
                ELSE Idle)
    /\ PoolFrame

\* update_pool_nvs: a password that was not typed is the stored one, "x" in an
\* empty slot.
update_pool_nvs ==
    /\ http.kind = "set" /\ Head(http.todo).key \in Slots
    /\ LET s == Head(http.todo).key
           new == Head(http.todo).value
           old == nvs_config_get(s)
           kept == IF old = Empty THEN DefaultPassword ELSE old.pass
       IN  /\ SetSetting(s, IF new = Empty THEN Empty
                            ELSE Pool(new.url, IF new.pass = Placeholder THEN kept
                                               ELSE new.pass))
           /\ http' = [kind |-> "reload", slot |-> s]
    /\ UNCHANGED <<nvsVars, pools, warned, asked, requests>>

\* DELETE_system_pool: not a selected slot; then as above with the empty string.
DELETE_system_pool ==
    /\ \E s \in Slots \ {nvs_config_get("prim"), nvs_config_get("sec")} :
          Begin([kind |-> "set", todo |-> <<[key |-> s, value |-> Empty]>>])
    /\ PoolFrame

\* SYSTEM_load_pool_from_nvs, which reads the cache.
Reload ==
    /\ http.kind = "reload"
    /\ pools' = [pools EXCEPT ![http.slot] = ParsePool(http.slot, nvs_config_get(http.slot))]
    /\ http' = Idle
    /\ UNCHANGED <<nvsVars, saveQueue, warned, accepted, asked,
                   requests>>

\* POST_restart answers and restarts a second later.
POST_restart == Begin([kind |-> "restart"]) /\ PoolFrame
RestartDelayEnds == http.kind = "restart" /\ Restarted /\ UNCHANGED crashes

-----------------------------------------------------------------------------

Next ==
    \/ MigrateFirst \/ MigrateSecond \/ MigrateSelectors \/ InitFallback \/ Load
    \/ TakeUpdate \/ WriteFlash \/ Crash \/ ClampFrequency
    \/ PATCH_update_settings \/ SetNext \/ PUT_system_pool \/ update_pool_nvs
    \/ DELETE_system_pool \/ Reload \/ POST_restart \/ RestartDelayEnds

\* nvs_task and the HTTP task run whenever they can.
Spec == Init /\ [][Next]_vars /\ WF_vars(TakeUpdate) /\ WF_vars(WriteFlash)
        /\ WF_vars(SetNext) /\ WF_vars(update_pool_nvs) /\ WF_vars(Reload)
        /\ WF_vars(RestartDelayEnds)

-----------------------------------------------------------------------------
(* Properties *)

Replay(from, n) ==
    LET last(k) == {i \in 1 .. n : accepted[i].key = k}
    IN  [k \in Keys |-> IF last(k) = {} THEN from[k]
                        ELSE accepted[CHOOSE i \in last(k) : \A j \in last(k) : j <= i].value]

\* The cache is always what the settings of the boot become after a prefix of
\* the accepted updates, and the queue is the rest: no update is lost, doubled
\* or overtaken by another (nvs_task, the setters).
CacheIsPrefix ==
    boot = "up" =>
        LET taken == Len(accepted) - Len(saveQueue)
        IN  /\ saveQueue = SubSeq(accepted, taken + 1, Len(accepted))
            /\ cache = Replay(atBoot, taken)

\* None of the first n updates set the key.
Unset(k, n) == \A i \in 1 .. n : accepted[i].key # k

\* Losing power never leaves a later update stored without an earlier one:
\* flash holds the prefix nvs_task has finished, but for writes that failed.  A
\* key is absent from it, and read as its default, only while nobody has set it.
FlashIsPrefix ==
    boot = "up" /\ failed = {} =>
        LET finished == Len(accepted) - Len(saveQueue)
                        - (IF saver = NoUpdate THEN 0 ELSE 1)
        IN  \A k \in Keys : \/ flash[k] = Absent /\ Unset(k, finished)
                            \/ flash[k] = Replay(atBoot, finished)[k]

\* A request that waits for room in the queue is answered: nvs_task drains it.
RequestReturns == (http # Idle) ~> (http = Idle)

Quiet == boot = "up" /\ http = Idle /\ saveQueue = <<>> /\ saver = NoUpdate

\* A frequency that a body was allowed to set is the one in force once nothing
\* is under way: "overclockEnabled may arrive in the same body, so honour that"
\* (check_settings_and_update).
OverclockHonoured == Quiet /\ asked # 0 => cache["freq"] = asked

=============================================================================
