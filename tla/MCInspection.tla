---------------------------- MODULE MCInspection ----------------------------
(***************************************************************************)
(* Instance of Inspection for TLC: a configuration whose inventory comes   *)
(* from libvirt, with little to match, and configurations that match,      *)
(* alert and respond a lot, without libvirt.                               *)
(***************************************************************************)
EXTENDS Inspection

MCStaticEntries == << [id |-> "db", macs |-> {"m1"}, ips |-> {}, vlans |-> {}],
                      [id |-> "lab", macs |-> {"m2"}, ips |-> {"i1"}, vlans |-> {7}] >>

ToDB == [macs |-> {"m1", "m2"}, ips |-> {}, vlan |-> 1]
ToIP == [macs |-> {"m2"}, ips |-> {"i2"}, vlan |-> 1]
ToLab == [macs |-> {"m2"}, ips |-> {"i1"}, vlan |-> 7]
MCPackets == {ToDB, ToIP, ToLab}

R(name, action, log, analyzer, strict, when, severe) ==
    [name |-> name, action |-> action, log |-> log, analyzer |-> analyzer, strict |-> strict,
     when |-> when, severe |-> severe, modifier |-> TRUE]

BadSite == R("bad site", "block", TRUE, "tls", TRUE, {"bad", "ours"}, TRUE)
Odd == R("odd", "", TRUE, "fet", FALSE, {"bad"}, TRUE)
Known == R("known", "allow", FALSE, "fet", TRUE, {"bad"}, FALSE)
BadModifier == [BadSite EXCEPT !.action = "modify", !.modifier = FALSE]

NoAllowlist == [on |-> FALSE]
Allowlist == [on |-> TRUE, ids |-> {"db", "lab"}, macs |-> {}, ips |-> {}, rules |-> {},
              domains |-> {}, webhook |-> TRUE]
Reports == [tls |-> {"bad", "ours"}, fet |-> {"bad"}]

\* Identities that change while one stream is matched.
Changing == [libvirt |-> TRUE, rules |-> <<Odd>>, alert |-> 0, risk |-> FALSE, response |-> 1,
             allow |-> Allowlist, streams |-> {1}, packets |-> {ToDB}, reports |-> [Reports EXCEPT !.tls = {}]]

\* One stream, several rules, all sinks.
OneStream == [libvirt |-> FALSE, rules |-> <<Odd, BadSite, Known>>, alert |-> 1, risk |-> TRUE, response |-> 1,
              allow |-> [Allowlist EXCEPT !.ids = {"db"}, !.ips = {"i2"}, !.domains = {"ours"}], streams |-> {1}, packets |-> MCPackets,
              reports |-> Reports]

\* Two workers share the webhook's queue.
TwoStreams == [libvirt |-> FALSE, rules |-> <<Odd, Known>>, alert |-> 2, risk |-> TRUE, response |-> 0,
               allow |-> NoAllowlist, streams |-> {1, 2}, packets |-> {ToIP}, reports |-> [Reports EXCEPT !.tls = {}]]

MCConfigs ==
    { Changing, OneStream, TwoStreams,
      [OneStream EXCEPT !.rules = <<BadSite, Odd>>, !.allow.webhook = FALSE, !.allow.macs = {"m1"},
                         !.allow.ids = {}, !.packets = {ToDB, ToLab}, !.response = 0],
      [OneStream EXCEPT !.rules = <<Odd, BadModifier>>],
      [TwoStreams EXCEPT !.rules = <<BadSite>>, !.alert = 1, !.reports.tls = {"bad"}] }

=============================================================================
