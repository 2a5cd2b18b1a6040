--------------------------- MODULE RulesetCatalog ---------------------------
(***************************************************************************)
(* What the ruleset repository promises its callers, with every operation  *)
(* taking effect at one instant: a catalog of immutable ruleset versions,  *)
(* each unique by id/version and by name/version, that only move from      *)
(* published to retired.  RulesetRepository implements it when publishers  *)
(* are serialized.                                                         *)
(***************************************************************************)
EXTENDS Naturals, FiniteSets

CONSTANTS
  Calls,        \* API calls, each made at most once
  NoEntry       \* "nothing acknowledged yet"

VARIABLES
  catalog,      \* the versions stored now
  acknowledged  \* call -> the version its caller was told about, or NoEntry

catalogVars == <<catalog, acknowledged>>

SameIdentity(e, f) ==
  /\ e.version = f.version
  /\ e.ruleset_id = f.ruleset_id \/ e.ruleset_name = f.ruleset_name

Unacknowledged(c) == acknowledged[c] = NoEntry
Acknowledge(c, e) == acknowledged' = [acknowledged EXCEPT ![c] = e]

CatalogInit ==
  /\ catalog = {}
  /\ acknowledged = [c \in Calls |-> NoEntry]

(* A version is added only when no stored version, retired or not, shares  *)
(* one of its identities.  The caller may never hear of it (lost reply).   *)
PublishEntry(c, e) ==
  /\ Unacknowledged(c)
  /\ e.status = "published"
  /\ \A f \in catalog : ~SameIdentity(e, f)
  /\ catalog' = catalog \cup {e}
  /\ (UNCHANGED acknowledged \/ Acknowledge(c, e))

(* One published version becomes retired; only its lifecycle columns move. *)
RetireEntry(e, by, at) ==
  /\ e.status = "published"
  /\ catalog' = (catalog \ {e}) \cup
       {[e EXCEPT !.status = "retired", !.retired_by = by, !.retired_at = at]}
  /\ UNCHANGED acknowledged

(* A retirement is confirmed only while the catalog shows it.              *)
ConfirmRetirement(c, e) ==
  /\ Unacknowledged(c)
  /\ e.status = "retired"
  /\ Acknowledge(c, e)
  /\ UNCHANGED catalog

(* A load returns a published version no other published version of that   *)
(* name and version competes with.                                         *)
LoadEntry(c, e) ==
  /\ Unacknowledged(c)
  /\ e.status = "published"
  /\ {f \in catalog : /\ f.status = "published"
                      /\ f.ruleset_name = e.ruleset_name
                      /\ f.version = e.version} = {e}
  /\ Acknowledge(c, e)
  /\ UNCHANGED catalog

(* Recreating the tables in overwrite mode empties the catalog.            *)
ResetCatalog ==
  /\ catalog' = {}
  /\ UNCHANGED acknowledged

CatalogNext ==
  \/ \E c \in Calls, e \in catalog' : PublishEntry(c, e)
  \/ \E e \in catalog, f \in catalog' : RetireEntry(e, f.retired_by, f.retired_at)
  \/ \E c \in Calls, e \in catalog : ConfirmRetirement(c, e)
  \/ \E c \in Calls, e \in catalog : LoadEntry(c, e)
  \/ ResetCatalog

CatalogSpec == CatalogInit /\ [][CatalogNext]_catalogVars

=============================================================================
