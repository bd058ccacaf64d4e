SPECIFICATION Spec
CONSTANTS
    Req = {r1, r2}
    Obj = {1, 2, 3, 4, 5, 6, 7, 8, 9}
    Titles = {milk, tea}
    Patches <- MCPatches
    Asked = {1, 2, 3}
    Seeds <- MCSeeds
    Bad = Bad
    None = None
SYMMETRY Symmetry
PROPERTY OnlyProvidedFields
