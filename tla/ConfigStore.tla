---------------------------- MODULE ConfigStore ----------------------------
(***************************************************************************)
(* The configuration (config_store.py): a dictionary in memory, saved to a *)
(* file at every change of the panel, read back by the DUAL service and at *)
(* a start; copies in module names that reload_config refreshes; and the   *)
(* list of hosts WARP is not for, to which requests add hosts of their own. *)
(* Of the settings the model has the WARP switch, the proxy of one         *)
(* extractor, and the hosts the panel excludes.                            *)
(***************************************************************************)
EXTENDS FiniteSets

CONSTANTS
    CProxy,    \* proxies of the extractor
    CHost,     \* hosts
    CDynamic,  \* ... whose names match a pattern of provider_hooks
    CNil

ASSUME ConfigAssumption == CDynamic \subseteq CHost /\ CNil \notin CProxy

Settings == [warp : BOOLEAN, ext : CProxy \cup {CNil}, hosts : SUBSET CHost]

VARIABLES
    cMem,     \* _config_data
    cFile,    \* config.json
    cDefault, \* extractor_proxies of DEFAULT_CONFIG, a dictionary that can be changed
    cShared,  \* _config_data holds that very dictionary
    cWarp,    \* config.ENABLE_WARP
    cExcl,    \* config.WARP_EXCLUDE_DOMAINS
    cSeen,    \* BYPASSED_WARP_DOMAINS
    cUnsaved  \* history: the last save failed

configVars == <<cMem, cFile, cDefault, cShared, cWarp, cExcl, cSeen, cUnsaved>>

Defaults == [warp |-> FALSE, ext |-> cDefault, hosts |-> {}]

\* The first start: no file, so the defaults are saved.
ConfigInit ==
    /\ cDefault = CNil /\ cMem = [warp |-> FALSE, ext |-> CNil, hosts |-> {}] /\ cFile = cMem
    /\ cShared = TRUE /\ cWarp = FALSE /\ cExcl = {} /\ cSeen = {} /\ cUnsaved = FALSE

\* _save: through a temporary file, so the file is the old one or the new one; an
\* error is logged only.
Saved(mem) ==
    \/ cFile' = mem /\ cUnsaved' = FALSE
    \/ cFile' = cFile /\ cUnsaved' = TRUE

\* Mutant of Reloaded: the copies are left.
ReloadedNot(mem) == UNCHANGED <<cWarp, cExcl>>

\* reload_config.
Reloaded(mem) == cWarp' = mem.warp /\ cExcl' = mem.hosts

\* handle_admin_api_update, handle_admin_api_warp_toggle: config_store.update.
SettingsUpdated(warp, hosts) ==
    LET mem == [cMem EXCEPT !.warp = warp, !.hosts = hosts]
    IN  /\ mem # cMem /\ cMem' = mem /\ Saved(mem) /\ Reloaded(mem)
        /\ UNCHANGED <<cDefault, cShared, cSeen>>

\* handle_admin_api_extractor_proxy changes the dictionary it got, and sets it.
ExtractorProxySet(p) ==
    LET mem == [cMem EXCEPT !.ext = p]
    IN  /\ mem # cMem /\ cMem' = mem /\ Saved(mem) /\ Reloaded(mem)
        /\ cDefault' = (IF cShared THEN p ELSE cDefault)
        /\ UNCHANGED <<cShared, cSeen>>

\* handle_admin_api_upload: replace_all with the file the administrator sends, which
\* may leave settings out.
Imported(warp, ext, named) ==
    LET mem == [Defaults EXCEPT !.warp = warp, !.ext = IF named THEN ext ELSE @]
    IN  /\ cMem' = mem /\ Saved(mem) /\ Reloaded(mem) /\ cShared' = ~named
        /\ UNCHANGED <<cDefault, cSeen>>

\* _load: the file, which has every setting once it was saved.
Loaded == cMem' = cFile /\ cShared' = FALSE /\ UNCHANGED <<cFile, cDefault>>

\* _refresh_live_config of the DUAL service.
DualRefreshes == Loaded /\ Reloaded(cMem') /\ cUnsaved' = FALSE /\ UNCHANGED cSeen

Bypassed(h) == h \in CDynamic /\ h \notin cSeen

\* _check_dynamic_warp_bypass, before a request is routed.
HostRequested(h) ==
    /\ cWarp /\ Bypassed(h)
    /\ cExcl' = cExcl \cup {h} /\ cSeen' = cSeen \cup {h}
    /\ UNCHANGED <<cMem, cFile, cDefault, cShared, cWarp, cUnsaved>>

\* The process starts again.
ConfigRestarts ==
    /\ cMem' = cFile /\ Reloaded(cFile) /\ cShared' = FALSE /\ cDefault' = CNil
    /\ cSeen' = {} /\ cUnsaved' = FALSE /\ UNCHANGED cFile

ConfigNext ==
    \/ \E w \in BOOLEAN, hosts \in SUBSET CHost : SettingsUpdated(w, hosts)
    \/ \E p \in CProxy \cup {CNil} : ExtractorProxySet(p)
    \/ \E w, named \in BOOLEAN, p \in CProxy : Imported(w, p, named)
    \/ DualRefreshes \/ ConfigRestarts \/ \E h \in CHost : HostRequested(h)

ConfigSpec == ConfigInit /\ [][ConfigNext]_configVars

-----------------------------------------------------------------------------
(* Properties.                                                             *)

\* Types; unless a save just failed the file has what is in memory, so that neither a
\* restart nor the refresh of the DUAL service takes a change back; and the copies in
\* the module names are never behind the configuration, whoever changed it.
ConfigConsistent ==
    /\ cMem \in Settings /\ cFile \in Settings /\ cExcl \subseteq CHost /\ cSeen \subseteq CHost
    /\ cUnsaved \/ cFile = cMem
    /\ cWarp = cMem.warp /\ cMem.hosts \subseteq cExcl
    /\ cExcl \subseteq cMem.hosts \cup (cSeen \cap CDynamic)
=============================================================================
