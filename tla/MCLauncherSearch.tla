---- MODULE MCLauncherSearch ----
EXTENDS LauncherSearch
====
