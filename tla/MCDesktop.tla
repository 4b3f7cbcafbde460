------------------------------- MODULE MCDesktop -------------------------------
(* Two paths, one of which holds a backup, or both a copy of it; one Windows installation of three kinds;
   users who each use some of the features. *)
EXTENDS Desktop

MCPaths == {"a", "b"}
MCFirstFiles == {"a"}
Win(live, uefi, lettered) == [live |-> live, uefi |-> uefi, lettered |-> lettered]
Running == Win(TRUE, TRUE, TRUE)
OnBios == Win(FALSE, FALSE, TRUE)
Unlettered == Win(FALSE, TRUE, FALSE)
User(uses, outputs, deep, clicks, saves, on) ==
    [uses |-> uses, files |-> MCFirstFiles, outputs |-> outputs, deep |-> deep,
     clicks |-> clicks, failing |-> saves, on |-> on]
NoBackups(uses, clicks, on) == User(uses, {}, {}, clicks, 0, on)

MCUsers ==
    {\* backs up one disk or two, verifies, tidies the lists
     User({"backup", "verify", "history", "refresh"},
          {<<"a">>, <<"b">>, <<"a", "b">>}, BOOLEAN, 2, 0, OnBios),
     \* has the process killed, or a save that fails
     User({"backup", "restore", "kill"}, {<<"b", "a">>}, {TRUE}, 2, 1, OnBios),
     User({"verify", "history", "kill"}, {}, {}, 2, 1, OnBios),
     User({"backup", "refresh"}, {<<"b", "a">>}, {FALSE}, 2, 1, OnBios),
     \* replaces the backup that a session belongs to, or that is mounted
     User({"backup", "vm"}, {<<"a">>}, {FALSE}, 3, 0, OnBios),
     User({"backup", "mount"}, {<<"a">>}, {FALSE}, 3, 0, OnBios),
     \* mounts and boots backups, closes the window or has the process killed
     NoBackups({"mount", "vm", "close", "kill"}, 4, OnBios),
     \* two copies of one backup, both mounted
     [NoBackups({"mount", "kill"}, 3, OnBios) EXCEPT !.files = MCPaths],
     \* works on a Windows while a restore is being checked
     NoBackups({"restore", "boot"}, 3, Running),
     NoBackups({"restore", "admin"}, 3, OnBios),
     NoBackups({"clone"}, 1, OnBios)}
    \* repairs a Windows, closes the window or has the process killed
    \cup {NoBackups({"boot", "hello", "admin", "close", "kill"}, 2, on) :
              on \in {Running, OnBios, Unlettered}}
=============================================================================
