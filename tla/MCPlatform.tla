----------------------------- MODULE MCPlatform -----------------------------
EXTENDS StackReports

Bare == [enabled |-> "off", acmeEmail |-> FALSE, acmeStaging |-> "off", kedaEnabled |-> "off",
         pulumiAccessToken |-> FALSE, cni |-> "cilium", repoURL |-> "unset", credential |-> {},
         token |-> TRUE, domain |-> FALSE, dnsZone |-> FALSE]
Full == [Bare EXCEPT !.enabled = "on", !.acmeEmail = TRUE, !.kedaEnabled = "on",
                     !.pulumiAccessToken = TRUE, !.repoURL = "ssh", !.credential = {"sshKey"},
                     !.domain = TRUE, !.dnsZone = TRUE]
Public  == [Full EXCEPT !.credential = {}, !.dnsZone = FALSE, !.enabled = "off"]
Typo    == [Bare EXCEPT !.kedaEnabled = "wrong", !.acmeStaging = "wrong"]
Mixed   == [Full EXCEPT !.repoURL = "https"]
Keyless == [Bare EXCEPT !.token = FALSE]

Walk == [layers |-> {1, 2, 4, 5}, settings |-> {Full, Public, Mixed}, faults |-> 1, kills |-> 0,
         edits |-> 1, strays |-> 0, commands |-> 2, reports |-> 0]
Services == [layers |-> {1, 3}, settings |-> {Bare, Typo}, faults |-> 1, kills |-> 0,
             edits |-> 1, strays |-> 0, commands |-> 3, reports |-> 0]
Rebuilt == [layers |-> {1, 5}, settings |-> {Full}, faults |-> 0, kills |-> 1, edits |-> 0,
            strays |-> 1, commands |-> 3, reports |-> 0]
Empty == [layers |-> {1, 4}, settings |-> {Public, Keyless}, faults |-> 1, kills |-> 1,
             edits |-> 1, strays |-> 0, commands |-> 2, reports |-> 0]
Reported == [layers |-> {1}, settings |-> {Bare}, faults |-> 1, kills |-> 0, edits |-> 0,
             strays |-> 1, commands |-> 2, reports |-> 1]
Recovered == [layers |-> {1}, settings |-> {Bare}, faults |-> 0, kills |-> 1, edits |-> 0,
              strays |-> 0, commands |-> 3, reports |-> 1]
MCWorlds == {Walk, Services, Rebuilt, Empty, Reported, Recovered}
=============================================================================
