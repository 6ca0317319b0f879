--------------------------- MODULE MCLegacyImport ---------------------------
(***************************************************************************)
(* Four keys of two groups, of each tier, one of them encrypted and one    *)
(* without a place in config.yaml; two session files, one audit file.      *)
(***************************************************************************)
EXTENDS LegacyImport

CONSTANTS base_url, api_key, provider, context, f1, f2, a1

MCKeys == {base_url, api_key, provider, context}
MCGroupOf == [k \in MCKeys |-> IF k = context THEN "ops" ELSE "model"]
MCGroups == <<"model", "ops">>
MCPatchOrder == <<api_key, base_url, context, provider>>
MCCatalogOrder == <<provider, base_url, api_key, context>>
MCSourced == {base_url, api_key, context}
MCSensitive == {api_key}
MCSeeded == {provider, base_url, context}
MCSecret == {api_key}
MCModelled == {base_url}
MCSessionFiles == <<f1, f2>>
MCAuditFiles == <<a1>>
MCLines == {<<TRUE, FALSE>>, <<TRUE, TRUE>>}

(* Where pages are saved or configurations loaded, one run of the import   *)
(* goes beside them as far as its configuration, with one fault; where     *)
(* none are, and the environment sets nothing, the runs go through the     *)
(* files as often as their bound lets them.  The key that no load reads is *)
(* saved alone, and a value that no rule accepts, which differs from       *)
(* another only in that it is not imported, is not in the file beside a    *)
(* load.                                                                   *)
Beside ==
  IF saves + loads > 0
  THEN /\ runs <= 1 /\ faults <= 1 /\ readable = {} /\ content[a1] = <<TRUE, TRUE>>
       /\ run.pc \in {"idle", "config", "sessions", "failed"}
       /\ \A k \in Keys : file[k] # Bad
       /\ \A s \in Savers : provider \in DOMAIN save[s].batch => Len(save[s].todo) <= 1
  ELSE run.pc = "files" => \A k \in Keys : env[k] = Unset

MCNext == Next /\ Beside'
MCSpec == Init /\ [][MCNext]_vars
=============================================================================
