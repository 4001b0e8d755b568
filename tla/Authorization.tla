----------------------------- MODULE Authorization -----------------------------
(***************************************************************************)
(* Who may do what.  The server's matrix of capabilities and decision, and *)
(* the front end's copy of the matrix, by which it draws its controls and  *)
(* its navigation.  Neither is computed from the other.                    *)
(***************************************************************************)
EXTENDS FiniteSets

Internal == {"MP", "AA", "PL", "CM", "BM", "SA"}
Archetypes == Internal \cup {"CC", "IC", "CB", "EL"}
Subject == Archetypes \cup {"PO"}

-----------------------------------------------------------------------------
\* The server.  A capability that is in no row is held by nobody.

SelfScoped == {"invitation.accept_own", "membership.read_own"}

Unscoped ==
  {"tenant.provision", "tenant.deactivate", "tenant.read_registry", "audit.read_platform",
   "tenant.change_plan", "plan.configure_limits", "invitation.issue_seed",
   "identity.read_registry", "identity.hard_delete", "membership.create_direct", "archetype.redefine"}

AssignedScoped ==
  {"case.read", "case.change_status", "case.manage_team", "document.upload", "document.read",
   "document.download", "document.change_category", "document.withdraw", "document.restore",
   "time.log", "time.correct_own"}

ScopeOf(c) ==
  CASE c \in SelfScoped -> "self"
    [] c \in Unscoped -> "none"
    [] c \in AssignedScoped -> "assigned"
    [] OTHER -> "tenant"

StepUp ==
  {"invitation.issue", "invitation.revoke", "membership.revoke", "membership.change_archetype",
   "invitation.issue_seed"}

Matrix(c) ==
  CASE c \in {"audit.read_own_tenant", "membership.change_archetype"} -> {"SA"}
    [] c \in {"invitation.issue", "invitation.revoke", "invitation.read_pending",
              "membership.read_tenant", "membership.revoke", "directory.assign_position",
              "directory.manage_catalog", "case.manage_catalog", "document.withdraw",
              "document.restore", "document.manage_catalog"} -> {"SA", "MP"}
    [] c = "plan.read_own_tenant" -> {"SA", "MP", "BM"}
    [] c \in SelfScoped -> Subject
    [] c \in {"tenant.provision", "tenant.deactivate", "tenant.read_registry", "audit.read_platform",
              "tenant.change_plan", "plan.configure_limits", "invitation.issue_seed"} -> {"PO"}
    [] c \in {"directory.read", "client.read", "case.read_catalog"} -> Internal
    [] c \in {"client.create", "client.update"} -> {"MP", "PL", "BM", "SA"}
    [] c = "client.deactivate" -> {"MP", "BM", "SA"}
    [] c \in {"case.read_list", "case.read", "document.upload", "document.read",
              "document.download", "document.read_catalog", "document.read_list",
              "calendar.read", "calendar.manage"} -> Internal \ {"BM"}
    [] c \in {"case.create", "case.manage_team", "document.change_category", "kpi.read"} ->
         {"MP", "CM", "SA"}
    [] c = "case.change_status" -> {"MP", "AA", "CM", "SA"}
    [] c \in {"time.log", "time.read_own", "time.correct_own", "time.discard_timer"} ->
         {"MP", "AA", "PL", "CM"}
    [] OTHER -> {}

\* The reasons in the order they are looked for; a caller with none is permitted.
Decision(c, subject, inScope) ==
  IF ScopeOf(c) # "self" /\ subject \notin Matrix(c) THEN "permission"
  ELSE IF ~inScope THEN "scope"
  ELSE "permitted"

\* A matter the caller is not on does not exist for it; the other refusals are told.
Status(c, decision) ==
  CASE decision = "permitted" -> "200"
    [] decision = "scope" /\ ScopeOf(c) = "assigned" -> "404"
    [] OTHER -> "403"

-----------------------------------------------------------------------------
\* The front end.

Mirror(c) ==
  CASE c \in {"client.read", "case.read_catalog", "directory.read"} -> Internal
    [] c \in {"client.create", "client.update"} -> {"MP", "PL", "BM", "SA"}
    [] c = "client.deactivate" -> {"MP", "BM", "SA"}
    [] c \in {"case.read_list", "case.read", "document.upload", "document.read",
              "document.download", "document.read_catalog", "document.read_list",
              "calendar.read", "calendar.manage"} -> {"MP", "AA", "PL", "CM", "SA"}
    [] c \in {"case.create", "document.change_category", "kpi.read"} -> {"MP", "CM", "SA"}
    [] c = "case.change_status" -> {"MP", "AA", "CM", "SA"}
    [] c \in {"invitation.issue", "invitation.revoke", "invitation.read_pending",
              "membership.read_tenant", "membership.revoke", "directory.manage_catalog",
              "directory.assign_position", "document.withdraw", "document.restore",
              "document.manage_catalog"} -> {"SA", "MP"}
    [] c = "membership.change_archetype" -> {"SA"}
    [] c \in {"time.log", "time.read_own", "time.correct_own", "time.discard_timer"} ->
         {"MP", "AA", "PL", "CM"}
    [] OTHER -> {}

Can(c, archetype) == archetype \in Mirror(c)

\* The controls the screens ask about.
Controls ==
  {"client.read", "client.create", "client.update", "client.deactivate", "case.read_list", "case.read",
   "case.create", "case.change_status", "case.read_catalog", "invitation.issue", "invitation.revoke",
   "invitation.read_pending", "membership.read_tenant", "membership.revoke",
   "membership.change_archetype", "directory.manage_catalog", "directory.assign_position",
   "directory.read", "document.upload", "document.read", "document.download",
   "document.change_category", "document.withdraw", "document.restore", "document.read_catalog",
   "document.manage_catalog", "document.read_list", "calendar.read", "calendar.manage", "kpi.read",
   "time.log", "time.read_own", "time.correct_own", "time.discard_timer"}

\* Mutant: a firm's own people are shown every screen but its settings.
ShownToInternal(screen) == IF screen = "configuracion" THEN {"SA", "MP"} ELSE Internal

\* Each screen of the navigation: who is shown it.
Shown(screen) ==
  CASE screen \in {"expedientes", "documentos", "calendario"} -> {"MP", "AA", "PL", "CM", "SA"}
    [] screen = "clientes" -> Internal
    [] screen = "kpis" -> {"MP", "CM", "SA"}
    [] screen = "horas" -> {"MP", "AA", "PL", "CM"}
    [] screen = "configuracion" -> {"SA", "MP"}

\* What each screen reads as soon as it opens.
Reads ==
  [expedientes |-> "case.read_list", clientes |-> "client.read", documentos |-> "document.read_list",
   calendario |-> "calendar.read", kpis |-> "kpi.read", horas |-> "time.read_own",
   configuracion |-> "membership.read_tenant"]

Screens == DOMAIN Reads
=============================================================================
