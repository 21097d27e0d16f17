----------------------------- MODULE MCWorkspace -----------------------------
(* Instances of Workspace for TLC. *)
EXTENDS Workspace

MCFocuses == {
    {"runtimes", "containers"}, {"runtimes", "builtin"},
    {"community", "media"}, {"users", "network"}, {"smtp", "media"},
    {"overview", "logs", "backupJobs"}, {"overview", "spaces", "software"}}
MCVisible == {
    "home", "storage", "pools", "files", "users", "permissions", "shell", "smtp",
    "shares", "backups", "analytics", "logs", "capabilities", "apps", "containers", "vms",
    "settings", "network", "firewall", "integrations", "admin/general", "admin/users",
    "admin/permissions", "admin/smtp", "admin/settings", "admin/analytics",
    "admin/capabilities", "admin/integrations"}
MCPages == MCVisible \cup {"hypervisor"}
MCStarts == {
    "home", "apps", "containers", "files", "users", "smtp", "network", "backups", "storage",
    "admin/general"}

\* A page shows what is held, and is the one that was asked for.
PageIsRight == Painted /\ StaysThere
=============================================================================
