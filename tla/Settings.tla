------------------------------- MODULE Settings -------------------------------
(* A settings factory (settings/settings.hpp) and its entry in the registry   *)
(* (settings.cpp), on the RCU-protected pointer urcu_data of                  *)
(* utility/urcu_helper.hpp.  The process starts, registers the factory (the   *)
(* default file is written, overrides are merged into it, it is loaded), then *)
(* reloads the file as it is edited while readers are inside with_settings;   *)
(* it may crash at any step and start again on the file it left.              *)
EXTENDS Integers, FiniteSets, Sequences

CONSTANTS SettingsReaders,
          Override,        \* the settings given with --override_config, field -> value
          MaxNodes         \* bound: urcu_nodes made by one process

VARIABLES file,            \* the config file: Absent, Torn or its settings
          boot,            \* register_factory, step by step; "up", or "down"
          config_js,       \* what register_factory read to merge into
          cur, val,        \* m_rcu_node, and the settings of each node made
          freed,           \* nodes deleted
          old,             \* nodes given to call_rcu -> readers waited for
          text,            \* m_current_settings, NoText when empty
          rop,             \* the load or reload under way
          rd               \* reader -> its with_settings

settingsVars == <<file, boot, config_js, cur, val, freed, old, text, rop, rd>>

Default == [load |-> 1, port |-> 1, host |-> "", tags |-> <<>>]
Configs == {Default} \cup {[Default EXCEPT !.load = 2], [Default EXCEPT !.port = 2],
  [Default EXCEPT !.host = "h1"], [Default EXCEPT !.host = "h2"], [Default EXCEPT !.tags = <<1>>]}
Hotswap == {"load"}
\* Not settings: no file, one that does not parse, the empty string.
Absent == [Default EXCEPT !.load = 0]
Torn == [Default EXCEPT !.load = -1]
NoText == Absent
NoReload == [pc |-> "idle", new |-> Default, old |-> 0, waits |-> {}]
NoRead == [pc |-> "out", node |-> 0, early |-> FALSE]

\* An override names settings of the schema.
ASSUME OverrideAssumption == DOMAIN Override \subseteq DOMAIN Default

merge_patch(js, patch) == [f \in DOMAIN js |-> IF f \in DOMAIN patch THEN patch[f] ELSE js[f]]

\* Slip: vectors are compared only when there are both.
BothPresent(v1, v2) == v1 # <<>> /\ v2 # <<>> /\ v1 # v2

\* An empty vector is packed as none; the lengths, then the elements are compared.
diff_vector(v1, v2) == v1 # v2

\* An empty string is packed as none, and none is not compared.
diff_string(s1, s2) == s1 # "" /\ s2 # "" /\ s1 # s2

diff(new, cold) ==
  \E f \in DOMAIN new \ Hotswap :
    CASE f = "port" -> new[f] # cold[f]
      [] f = "host" -> diff_string(cold[f], new[f])
      [] f = "tags" -> diff_vector(cold[f], new[f])

------------------------------------------------------------------------------
\* register_factory, under the registry's lock; save writes the defaults.
SaveDefault ==
  /\ boot = "save"
  /\ file' = IF file = Absent THEN Default ELSE file
  /\ boot' = IF DOMAIN Override = {} THEN "load" ELSE "merge"
  /\ UNCHANGED <<config_js, cur, val, freed, old, text, rop, rd>>

\* json::parse throws on a file it cannot read, and the process ends.
ReadToMerge ==
  /\ boot = "merge"
  /\ IF file = Torn THEN boot' = "down" /\ UNCHANGED config_js
     ELSE boot' = "truncate" /\ config_js' = merge_patch(file, Override)
  /\ UNCHANGED <<file, cur, val, freed, old, text, rop, rd>>

TruncateFile ==
  /\ boot = "truncate"
  /\ file' = Torn
  /\ boot' = "write"
  /\ UNCHANGED <<config_js, cur, val, freed, old, text, rop, rd>>

\* Slip: what was read is written back.
WriteUnmerged ==
  /\ boot = "write"
  /\ file' = [config_js EXCEPT !.port = Default.port]
  /\ boot' = "load"
  /\ UNCHANGED <<config_js, cur, val, freed, old, text, rop, rd>>

WriteMerged ==
  /\ boot = "write"
  /\ file' = config_js
  /\ boot' = "load"
  /\ UNCHANGED <<config_js, cur, val, freed, old, text, rop, rd>>

\* load throws on a file parse_config cannot read.
Load ==
  /\ boot = "load"
  /\ IF file = Torn THEN boot' = "down" /\ UNCHANGED <<text, rop>>
     ELSE /\ boot' = "loading"
          /\ text' = file
          /\ rop' = [NoReload EXCEPT !.pc = "exchange", !.new = file]
  /\ UNCHANGED <<file, config_js, cur, val, freed, old, rd>>

\* reload: parse_config, which keeps the text it could parse, then
\* check_restart_needed against the settings in use.
ReloadParse ==
  /\ boot = "up" /\ rop.pc = "idle" /\ file \notin {Absent, Torn}
  /\ text' = file
  /\ rop' = [NoReload EXCEPT !.pc = "check", !.new = file]
  /\ UNCHANGED <<file, boot, config_js, cur, val, freed, old, rd>>

\* Slip: the text is kept whatever the outcome is.
TextKept ==
  /\ rop.pc = "check"
  /\ rop' = [rop EXCEPT !.pc = IF diff(rop.new, val[cur]) THEN "restart" ELSE "exchange"]
  /\ UNCHANGED <<file, boot, config_js, cur, val, freed, old, text, rd>>

ReloadCheck ==
  /\ rop.pc = "check"
  /\ IF diff(rop.new, val[cur])
     THEN rop' = [rop EXCEPT !.pc = "restart"] /\ text' = NoText
     ELSE rop' = [rop EXCEPT !.pc = "exchange"] /\ UNCHANGED text
  /\ UNCHANGED <<file, boot, config_js, cur, val, freed, old, rd>>

\* reload returned true: the caller restarts the application, now or later.
RestartNeeded ==
  /\ rop.pc = "restart"
  /\ rop' = NoReload
  /\ UNCHANGED <<file, boot, config_js, cur, val, freed, old, text, rd>>

Reading == {r \in SettingsReaders : rd[r].pc = "reading"}

\* make_and_exchange: the new node, the pointer, synchronize_rcu, call_rcu.
Exchange ==
  /\ rop.pc = "exchange"
  /\ Cardinality(DOMAIN val) < MaxNodes
  /\ LET n == Cardinality(DOMAIN val) + 1
     IN /\ cur' = n
        /\ val' = [m \in 1 .. n |-> IF m = n THEN rop.new ELSE val[m]]
  /\ rop' = [rop EXCEPT !.pc = "synchronize", !.old = cur, !.waits = Reading]
  /\ boot' = "up"
  /\ UNCHANGED <<file, config_js, freed, old, text, rd>>

\* Slip: the old node is deleted where it is handed over.
DeletedAtOnce ==
  /\ rop.pc = "synchronize"
  /\ freed' = freed \cup {rop.old}
  /\ rop' = NoReload
  /\ UNCHANGED <<file, boot, config_js, cur, val, old, text, rd>>

SynchronizeRcu ==
  /\ rop.pc = "synchronize" /\ rop.waits = {}
  /\ old' = [n \in DOMAIN old \cup {rop.old} |-> IF n = rop.old THEN Reading ELSE old[n]]
  /\ rop' = NoReload
  /\ UNCHANGED <<file, boot, config_js, cur, val, freed, text, rd>>

\* The callback of call_rcu, urcu_node::free.
FreeNode ==
  \E n \in DOMAIN old :
    /\ old[n] = {}
    /\ freed' = freed \cup {n}
    /\ old' = [m \in DOMAIN old \ {n} |-> old[m]]
    /\ UNCHANGED <<file, boot, config_js, cur, val, text, rop, rd>>

\* with_settings: urcu_data::get reads the pointer for the urcu_ptr whose
\* constructor then takes the read lock.
GetPointer(r) ==
  /\ boot = "up" /\ rd[r].pc = "out"
  /\ rd' = [rd EXCEPT ![r] = [NoRead EXCEPT !.pc = "got", !.node = cur]]
  /\ UNCHANGED <<file, boot, config_js, cur, val, freed, old, text, rop>>

ReadLock(r) ==
  /\ rd[r].pc = "got"
  /\ rd' = [rd EXCEPT ![r].pc = "reading", ![r].early = rd[r].node = cur]
  /\ UNCHANGED <<file, boot, config_js, cur, val, freed, old, text, rop>>

ReadUnlock(r) ==
  /\ rd[r].pc = "reading"
  /\ rd' = [rd EXCEPT ![r] = NoRead]
  /\ rop' = [rop EXCEPT !.waits = @ \ {r}]
  /\ old' = [n \in DOMAIN old |-> old[n] \ {r}]
  /\ UNCHANGED <<file, boot, config_js, cur, val, freed, text>>

\* save_all: the settings in use are written to the file.
SaveFile ==
  /\ boot = "up" /\ rop.pc = "idle"
  /\ file' = val[cur]
  /\ UNCHANGED <<boot, config_js, cur, val, freed, old, text, rop, rd>>

\* modifiable_settings: the callback sets a hotswap setting in place.
ModifyInPlace ==
  /\ boot = "up"
  /\ \E v \in {1, 2} : v # val[cur].load /\ val' = [val EXCEPT ![cur].load = v]
  /\ UNCHANGED <<file, boot, config_js, cur, freed, old, text, rop, rd>>

\* The file is edited, or what was writing it (save, an editor) did not finish.
EditFile ==
  /\ boot \in {"up", "down"}
  /\ file' \in (Configs \cup {Torn}) \ {file}
  /\ UNCHANGED <<boot, config_js, cur, val, freed, old, text, rop, rd>>

Memory ==
  [boot |-> "save", config_js |-> Default, cur |-> 1, val |-> [n \in {1} |-> Default],
   freed |-> {}, old |-> [n \in {} |-> {}], text |-> NoText, rop |-> NoReload,
   rd |-> [r \in SettingsReaders |-> NoRead]]

SettingsInit ==
  /\ file \in {Absent} \cup Configs
  /\ boot = Memory.boot /\ config_js = Memory.config_js /\ cur = Memory.cur
  /\ val = Memory.val /\ freed = Memory.freed /\ old = Memory.old
  /\ text = Memory.text /\ rop = Memory.rop /\ rd = Memory.rd

\* The process ends, by a crash or a restart, and is started again.
StartAgain ==
  /\ boot # "save"
  /\ boot' = Memory.boot /\ config_js' = Memory.config_js /\ cur' = Memory.cur
  /\ val' = Memory.val /\ freed' = Memory.freed /\ old' = Memory.old
  /\ text' = Memory.text /\ rop' = Memory.rop /\ rd' = Memory.rd
  /\ UNCHANGED file

SettingsNext ==
  \/ SaveDefault \/ ReadToMerge \/ TruncateFile \/ WriteMerged \/ Load
  \/ ReloadParse \/ ReloadCheck \/ RestartNeeded
  \/ Exchange \/ SynchronizeRcu \/ FreeNode
  \/ SaveFile \/ ModifyInPlace \/ EditFile \/ StartAgain
  \/ \E r \in SettingsReaders : GetPointer(r) \/ ReadLock(r) \/ ReadUnlock(r)

SettingsSpec == SettingsInit /\ [][SettingsNext]_settingsVars

------------------------------------------------------------------------------
Cold == DOMAIN Default \ Hotswap

\* The settings a reader was given while they were in use stay allocated until
\* its urcu_ptr is destroyed, whatever is loaded meanwhile.
ReadersProtected ==
  \A r \in Reading : rd[r].early => rd[r].node \notin freed

\* "invoke a user callback and supply safely locked settings instance"
\* (settings.hpp:265): no reader is inside with_settings on deleted settings.
SafelyLocked == \A r \in Reading : rd[r].node \notin freed

\* A running process never sees a setting change that is not marked hotswap;
\* a string that was empty, or becomes empty, is what diff does not compare.
ColdKept ==
  [][boot = "up" /\ boot' = "up" =>
       \A f \in Cold : \/ val'[cur'][f] = val[cur][f]
                       \/ f = "host" /\ "" \in {val'[cur'][f], val[cur][f]}]_settingsVars

\* get_current_settings is the text of the settings in use (empty when they are
\* the defaults or a restart is due), but for settings changed in place.
TextMatches ==
  boot = "up" /\ rop.pc \notin {"check", "exchange"} /\ text # NoText
    => \A f \in Cold : text[f] = val[cur][f]

\* Whatever the file was, and wherever the last process stopped, the settings a
\* process comes up with have the overrides in them, and so does the file.
OverridesApplied ==
  [][boot # "up" /\ boot' = "up" =>
       \A f \in DOMAIN Override : val'[cur'][f] = Override[f] /\ file[f] = Override[f]
    ]_settingsVars

\* Across reloads, edits, crashes and starts: a reader in its read section keeps
\* its settings, a cold setting never changes under a running process, the text
\* kept is that of the settings in use, and overrides are always in force.
SettingsSound == [](ReadersProtected /\ TextMatches) /\ ColdKept /\ OverridesApplied
===============================================================================
