\* Up to four values in up to four requests.
CONSTANTS
    milano = milano  roma = roma
    bench1 = bench1  bench2 = bench2
    five = five  six = six
    None = None
    Nets = {milano, roma}
    PNets = {bench1, bench2}
    Octets = {five, six}
    MaxValues = 4
SPECIFICATION Spec
SYMMETRY Symmetry
INVARIANTS TypeOK Resolves ApartWithinWay SubnetsKept FlatReanonymized
CHECK_DEADLOCK FALSE
