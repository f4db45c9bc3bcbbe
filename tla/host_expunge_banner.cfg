CONSTANTS
    Workers = {w1}
    Messages = {m1}
    Services = {}
    Probes = {}
    Ops = {"expunge"}
    Wirings <- MCWirings
SPECIFICATION Spec
INVARIANT ExpungedMeansGone
