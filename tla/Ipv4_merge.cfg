\* Two values.
CONSTANTS
    milano = milano  roma = roma
    bench1 = bench1  bench2 = bench2
    five = five  six = six
    None = None
    Nets = {milano, roma}
    PNets = {bench1, bench2}
    Octets = {five, six}
    MaxValues = 2
SPECIFICATION Spec
SYMMETRY Symmetry
INVARIANT AddressesApart
CHECK_DEADLOCK FALSE
