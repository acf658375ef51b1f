SPECIFICATION Spec
CONSTANTS
    Classes = {"HostEndpoint", "Address", "Size", "Flag", "CounterReset"}
    Arguments = {{}, {0}, {0, 5, 9, 15}, {3, 16, 31}}
    RawWords = {{}, {0, 17, 40, 41, 42, 63}}
INVARIANT FieldsInSync
