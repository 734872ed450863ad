SPECIFICATION QueueSpec
CONSTANTS
    Records = {r1, r2, r3}
    Capacity = 4
    Nullopt = Nullopt
    Blank = Blank
PROPERTIES ImplementsFifo AcceptedIsPopped
