CONSTANTS
  NULL = NULL
  Interfaces = {accel, gyro}
  Phys = {i2c}
  RefModulus = 4
SPECIFICATION Spec
INVARIANT CountIsActive
