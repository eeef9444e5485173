------------------------------ MODULE MCConfig ------------------------------
EXTENDS GnssConfig

Update(flags, value) ==
    [flags |-> flags, value |-> value, lock |-> {}, list |-> {}, server |-> "supl"]

Glo1 == [type |-> "glo", id |-> 65]
Sbas2 == [type |-> "sbas", id |-> 184]
AllGal == [type |-> "gal", id |-> 0]

MCUpdates ==
    {[Update({"lock"}, 0) EXCEPT !.lock = l] : l \in {{}, {"ims"}}}
    \cup {Update({"version", "server", "glonass"}, 1), Update({"cp", "up", "glonass"}, 1), Update({"cp", "es"}, 0),
          Update({"extension", "elevation", "week"}, 1),
          [Update({"server"}, 1) EXCEPT !.server = "c2k"]}
    \cup {[Update({"blacklist"}, 0) EXCEPT !.list = l] :
              l \in {{}, {Glo1, Sbas2}, {Glo1, AllGal}}}
MCGets == {{"version", "blacklist"}, {"mode", "extension", "week"}, {"robust", "week"}}
Types(on, off) == [set |-> TRUE, on |-> on, off |-> off]
MCTypeConfigs == {Types({"glo"}, {}), Types({}, {"glo"}), Types({"gal"}, {"glo"})}
MCMasks == {NoMask, [NoMask EXCEPT !.glo = {1}, !.gal = AllBits]}
=============================================================================
