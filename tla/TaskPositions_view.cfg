SPECIFICATION FairSpec
CONSTANTS
    Tasks = 3
    MaxPosition = 12
    IndexStep = 2
    FilterIndex <- MCFilterIndex
    DragTo = {0, 8}
    Explicit = {4}
    Legacy = {4}
PROPERTIES
    OrderIsKept
    NoNewTies
    CardsLand
    
